---------------------------- MODULE Spec2Model ----------------------------
(***************************************************************************)
(* State-machine model of the GNSS core (gnss_core.c): the byte framing    *)
(* state machine of gnss_receive, the NMEA sentence processor, the UBX     *)
(* message processor, the fix correlator, the satellite tracker, the       *)
(* MediaTek / u-blox configuration driver and the public facade.           *)
(*                                                                         *)
(* Conventions.                                                            *)
(*  - A byte is a number 0..255; text is written as the tuple of its ASCII *)
(*    codes with the characters in a comment.                              *)
(*  - A C string handed to a parser is the tuple of its bytes without the  *)
(*    terminating NUL; At(data, i) is data[i] in C (0-based) and yields    *)
(*    the NUL at i = Len(data).                                            *)
(*  - Bit masks (seen, expected, location.mask, nmea.mask, sv_used_mask)   *)
(*    are sets of the names of their bits: x |= B is x \cup {B}, x &= ~B   *)
(*    is x \ {B}, (x & B) is B \in x.  The SOLUTION bit is one bit (0x8000)*)
(*    shared by the NMEA and the UBX masks, as in the source.              *)
(*  - uint32 values above 2^31 are written as their two's complement       *)
(*    (~0l is -1): only equality is ever taken of them.                    *)
(*  - The operators that model C functions take and return the "world"     *)
(*    w = [dev, timer, trace, oob, pos]: the device record, the            *)
(*    retransmit timer, the calls made so far by the running operation,    *)
(*    the value a read past the end of an array yields, and the number of  *)
(*    bytes of the buffer consumed so far.                                 *)
(***************************************************************************)
EXTENDS Integers, Sequences, FiniteSets, TLC

VARIABLES
    device,     \* gnss_device: the one process-wide gnss_device_t
    timer,      \* device->ubx.timeout is armed (stm32l0_rtc_timer_start/stop)
    trace,      \* what the last operation did: processors reached, host calls
    op,         \* the last operation: its name and its return value
    hist,       \* the frame in progress and the running fix cycle
    link        \* the serial line: commands and answers on their way

vars == <<device, timer, trace, op, hist, link>>

-----------------------------------------------------------------------------
(* Constants of gnss_core.c and of gnss_api.h.                             *)

\* NMEA_FIELD_SEQUENCE_*: the field sequence is a number, because the parser
\* steps it with sequence + 1.
SEQ ==
    [ START |-> 0, SKIP |-> 1,
      GGA_TIME |-> 2, GGA_LATITUDE |-> 3, GGA_LATITUDE_NS |-> 4,
      GGA_LONGITUDE |-> 5, GGA_LONGITUDE_EW |-> 6, GGA_QUALITY |-> 7,
      GGA_NUMSV |-> 8, GGA_HDOP |-> 9, GGA_ALTITUDE |-> 10,
      GGA_ALTITUDE_UNIT |-> 11, GGA_SEPARATION |-> 12,
      GGA_SEPARATION_UNIT |-> 13, GGA_DIFFERENTIAL_AGE |-> 14,
      GGA_DIFFERENTIAL_STATION |-> 15,
      GSA_OPERATION |-> 16, GSA_NAVIGATION |-> 17,
      GSA_SV_USED_PRN_1 |-> 18, GSA_SV_USED_PRN_12 |-> 29,
      GSA_PDOP |-> 30, GSA_HDOP |-> 31, GSA_VDOP |-> 32,
      GST_TIME |-> 33, GST_RANGE |-> 34, GST_STDDEV_MAJOR |-> 35,
      GST_STDDEV_MINOR |-> 36, GST_ORIENTATION |-> 37,
      GST_STDDEV_LATITUDE |-> 38, GST_STDDEV_LONGITUDE |-> 39,
      GST_STDDEV_ALTITUDE |-> 40,
      GSV_SENTENCES |-> 41, GSV_CURRENT |-> 42, GSV_SV_IN_VIEW_COUNT |-> 43,
      GSV_SV_IN_VIEW_ID |-> 44, GSV_SV_IN_VIEW_ELEV |-> 45,
      GSV_SV_IN_VIEW_AZIM |-> 46, GSV_SV_IN_VIEW_SNR |-> 47,
      RMC_TIME |-> 48, RMC_STATUS |-> 49, RMC_LATITUDE |-> 50,
      RMC_LATITUDE_NS |-> 51, RMC_LONGITUDE |-> 52, RMC_LONGITUDE_EW |-> 53,
      RMC_SPEED |-> 54, RMC_COURSE |-> 55, RMC_DATE |-> 56,
      RMC_VARIATION |-> 57, RMC_VARIATION_UNIT |-> 58, RMC_MODE |-> 59,
      GGA_END |-> 60, GSA_END |-> 61, GST_END |-> 62, GSV_END |-> 63,
      RMC_END |-> 64,
      PMTK001_COMMAND |-> 65, PMTK001_STATUS |-> 66, PMTK001_END |-> 67 ]

\* GNSS_STATE_*: the framing states, numbered as in the source (the test
\* state <= GNSS_STATE_NMEA_END_LF is on the number).
GNSS_STATE ==
    [ START |-> 0, NMEA_PAYLOAD |-> 1, NMEA_CHECKSUM_1 |-> 2,
      NMEA_CHECKSUM_2 |-> 3, NMEA_END_CR |-> 4, NMEA_END_LF |-> 5,
      UBX_SYNC_2 |-> 6, UBX_MESSAGE_1 |-> 7, UBX_MESSAGE_2 |-> 8,
      UBX_LENGTH_1 |-> 9, UBX_LENGTH_2 |-> 10, UBX_PAYLOAD |-> 11,
      UBX_CK_A |-> 12, UBX_CK_B |-> 13 ]

\* GNSS_INIT_*
GNSS_INIT ==
    [ DONE |-> 0, MTK_BAUD_RATE |-> 1, MTK_INIT_TABLE |-> 2,
      UBX_BAUD_RATE |-> 3, UBX_INIT_TABLE |-> 4 ]

\* GNSS_RESPONSE_*
GNSS_RESPONSE ==
    [ NONE |-> 0, ACK |-> 1, NACK |-> 2, STARTUP |-> 3, NMEA_SENTENCE |-> 4,
      UBX_MESSAGE |-> 5 ]

\* NMEA_NAVIGATION_* and NMEA_STATUS_*
NMEA_NAVIGATION == [ NONE |-> 0, D2 |-> 1, D3 |-> 2 ]
NMEA_STATUS == [ RECEIVER_WARNING |-> 0, DATA_VALID |-> 1 ]

GNSS_RX_DATA_SIZE == 96
GNSS_TX_DATA_SIZE == 64

\* gnss_api.h (the header is not part of the sources at hand; the values are
\* those the design document gives: three modes, four fix types, 32 entries).
GNSS_MODE == [ NMEA |-> 0, MEDIATEK |-> 1, UBLOX |-> 2 ]
GNSS_LOCATION_TYPE == [ NONE |-> 0, TIME |-> 1, D2 |-> 2, D3 |-> 3 ]
GNSS_LOCATION_QUALITY ==
    [ NONE |-> 0, AUTONOMOUS |-> 1, DIFFERENTIAL |-> 2, PRECISE |-> 3,
      RTK_FIXED |-> 4, RTK_FLOAT |-> 5, ESTIMATED |-> 6 ]
GNSS_SATELLITES_COUNT_MAX == 32

\* device->command = ~0l / -1: no command awaits an acknowledgement.
COMMAND_NONE == -1

-----------------------------------------------------------------------------
(* Bytes and strings.                                                      *)

At(data, i) == IF i >= 0 /\ i < Len(data) THEN data[i + 1] ELSE 0

IsDigit(c) == c >= 48 /\ c <= 57         \* (c >= '0') && (c <= '9')

\* data + n
Skip(data, n) == IF n >= Len(data) THEN << >> ELSE SubSeq(data, n + 1, Len(data))

\* !strcmp(data, lit)
StrEq(data, lit) == data = lit

\* strlen of a byte array: the bytes before the first 0x00
RECURSIVE strlen_from(_, _)
strlen_from(data, i) ==
    IF i > Len(data) \/ data[i] = 0 THEN i - 1 ELSE strlen_from(data, i + 1)

strlen(data) == strlen_from(data, 1)

Min(a, b) == IF a < b THEN a ELSE b

\* x ^ y on bytes (device->checksum ^= c, ck_a ^= c), bit by bit
XorBit(x, y, bit) == IF (x \div bit) % 2 = (y \div bit) % 2 THEN 0 ELSE bit

Xor8(x, y) ==
    XorBit(x, y, 1) + XorBit(x, y, 2) + XorBit(x, y, 4) + XorBit(x, y, 8)
    + XorBit(x, y, 16) + XorBit(x, y, 32) + XorBit(x, y, 64)
    + XorBit(x, y, 128)

\* nmea_hex_ascii[n]
nmea_hex_ascii(n) == IF n < 10 THEN 48 + n ELSE 65 + (n - 10)

\* nmea_scale[n]
RECURSIVE nmea_scale(_)
nmea_scale(n) == IF n = 0 THEN 1 ELSE 10 * nmea_scale(n - 1)

-----------------------------------------------------------------------------
(* 4.A  Numeric parsers.  Each returns [ok, ...]; ok is the C return value.*)

\* nmea_isqrt: the bit-by-bit integer square root.
RECURSIVE isqrt_loop(_, _, _)
isqrt_loop(n, c, g) ==
    LET g1 == IF g * g > n THEN g - c ELSE g    \* g ^= c clears bit c of g
        c1 == c \div 2
    IN  IF c1 = 0 THEN g1 ELSE isqrt_loop(n, c1, g1 + c1)

nmea_isqrt(n) == isqrt_loop(n, 32768, 32768)

\* The digit loop "while digit: integer = integer * 10 + digit; data++".
RECURSIVE ScanDigits(_, _, _)
ScanDigits(data, i, acc) ==
    IF IsDigit(At(data, i))
    THEN ScanDigits(data, i + 1, acc * 10 + (At(data, i) - 48))
    ELSE [pos |-> i, val |-> acc]

\* The fraction loop: at most `scale` digits are taken, the rest is dropped.
RECURSIVE ScanFraction(_, _, _, _, _)
ScanFraction(data, i, acc, digits, scale) ==
    IF IsDigit(At(data, i))
    THEN IF digits < scale
         THEN ScanFraction(data, i + 1, acc * 10 + (At(data, i) - 48),
                           digits + 1, scale)
         ELSE ScanFraction(data, i + 1, acc, digits, scale)
    ELSE [pos |-> i, val |-> acc, digits |-> digits]

nmea_same_time(t0, t1) ==
    /\ t0.hour = t1.hour
    /\ t0.minute = t1.minute
    /\ t0.second = t1.second
    /\ t0.millis = t1.millis

\* The value is taken if the digits reach the end of the field
UnsignedResult(data, s) ==
    IF At(data, s.pos) = 0 /\ s.pos = Len(data)
    THEN [ok |-> TRUE, val |-> s.val]
    ELSE [ok |-> FALSE, val |-> 0]

nmea_parse_unsigned(data) == UnsignedResult(data, ScanDigits(data, 0, 0))

\* A fraction f of fewer digits than scale is scaled up
Fraction(f, scale) ==
    IF f.digits < scale THEN f.val * nmea_scale(scale - f.digits) ELSE f.val

\* The value is taken if integer s and fraction f reach the end of the field
FixedResult(data, scale, s, f) ==
    IF f.pos = Len(data)
    THEN [ok |-> TRUE, val |-> s.val * nmea_scale(scale) + Fraction(f, scale)]
    ELSE [ok |-> FALSE, val |-> 0]

\* The fraction after the integer s, if a '.' follows it
FixedFraction(data, scale, s) ==
    FixedResult(data, scale, s,
                IF At(data, s.pos) = 46                               \* '.'
                THEN ScanFraction(data, s.pos + 1, 0, 0, scale)
                ELSE [pos |-> s.pos, val |-> 0, digits |-> scale])

nmea_parse_fixed(data, scale) ==
    FixedFraction(data, scale, ScanDigits(data, 0, 0))

TwoDigits(data, i) == IsDigit(At(data, i)) /\ IsDigit(At(data, i + 1))

TwoDigitValue(data, i) == (At(data, i) - 48) * 10 + (At(data, i + 1) - 48)

\* The time is taken if its fields are in range and the fraction f reaches
\* the end of the field
TimeResult(data, f) ==
    IF /\ TwoDigits(data, 0)
       /\ TwoDigitValue(data, 0) < 24 /\ TwoDigits(data, 2)
       /\ TwoDigitValue(data, 2) < 60 /\ TwoDigits(data, 4)
       /\ TwoDigitValue(data, 4) <= 60
       /\ f.pos = Len(data)
    THEN [ok |-> TRUE, hour |-> TwoDigitValue(data, 0),
          minute |-> TwoDigitValue(data, 2),
          second |-> TwoDigitValue(data, 4), millis |-> Fraction(f, 3)]
    ELSE [ok |-> FALSE, hour |-> 0, minute |-> 0, second |-> 0,
          millis |-> 0]

nmea_parse_time(data) ==
    TimeResult(data, IF At(data, 6) = 46                              \* '.'
                     THEN ScanFraction(data, 7, 0, 0, 3)
                     ELSE [pos |-> 6, val |-> 0, digits |-> 3])

\* degrees and minutes m to units of 1e-7 degrees
Degrees(degrees, limit, m) ==
    IF degrees < limit /\ m.ok /\ m.val < 600000000
    THEN [ok |-> TRUE, val |-> degrees * 10000000 + ((m.val + 30) \div 60)]
    ELSE [ok |-> FALSE, val |-> 0]

nmea_parse_latitude(data) ==
    IF TwoDigits(data, 0) /\ At(data, 2) # 0
    THEN Degrees(TwoDigitValue(data, 0), 90,
                 nmea_parse_fixed(Skip(data, 2), 7))
    ELSE [ok |-> FALSE, val |-> 0]

nmea_parse_longitude(data) ==
    IF TwoDigits(data, 0) /\ IsDigit(At(data, 2)) /\ At(data, 3) # 0
    THEN Degrees(TwoDigitValue(data, 0) * 10 + (At(data, 2) - 48), 180,
                 nmea_parse_fixed(Skip(data, 3), 7))
    ELSE [ok |-> FALSE, val |-> 0]

-----------------------------------------------------------------------------
(* The world the C functions act on.                                       *)

SetDev(w, d) == [w EXCEPT !.dev = d]

\* An event of the running operation: e, stamped with the number of bytes
\* of the buffer consumed when it happens.
Emit(w, e) == [w EXCEPT !.trace = Append(@, e @@ [at |-> w.pos])]

\* memset(&device->location, 0, ...) / the zeroed static storage
ZeroTime ==
    [year |-> 0, month |-> 0, day |-> 0, hour |-> 0, minute |-> 0,
     second |-> 0, millis |-> 0]

ZeroLocation ==
    [time |-> ZeroTime, type |-> 0, quality |-> 0, numsv |-> 0,
     correction |-> 0, mask |-> {}, latitude |-> 0, longitude |-> 0,
     altitude |-> 0, separation |-> 0, speed |-> 0, course |-> 0,
     climb |-> 0, ehpe |-> 0, evpe |-> 0, pdop |-> 0, hdop |-> 0,
     vdop |-> 0]

\* The satellite table: info holds the entries written since count was last
\* reset, at most GNSS_SATELLITES_COUNT_MAX of them; count is the C counter,
\* which the GSV parser steps past the array size.
ZeroSatellites == [count |-> 0, info |-> << >>]

ZeroNmea ==
    [prefix |-> 0, sequence |-> 0, mask |-> {}, navigation |-> 0,
     status |-> 0, sv_in_view_sentences |-> 0, sv_in_view_count |-> 0,
     sv_in_view_index |-> 0, sv_used_count |-> 0, sv_used_mask |-> {},
     mtk_command |-> 0, mtk_status |-> 0]

ZeroUbx ==
    [ck_a |-> 0, ck_b |-> 0, message |-> 0, length |-> 0, week |-> 0,
     tow |-> 0, itow |-> 0]

-----------------------------------------------------------------------------
(* 4.E  Publishing: gnss_location and gnss_satellites.                     *)

\* The switch on location.type that restricts the mask.
LocationTypeMask(loc) ==
    IF loc.type = GNSS_LOCATION_TYPE.NONE
    THEN [loc EXCEPT !.mask = {}, !.numsv = 0,
                     !.quality = GNSS_LOCATION_QUALITY.NONE]
    ELSE IF loc.type = GNSS_LOCATION_TYPE.TIME
    THEN [loc EXCEPT !.mask = @ \cap {"TIME", "CORRECTION"},
                     !.quality = GNSS_LOCATION_QUALITY.NONE]
    ELSE IF loc.type = GNSS_LOCATION_TYPE.D2
    THEN [loc EXCEPT !.mask = @ \cap {"TIME", "CORRECTION", "POSITION",
                                      "SPEED", "COURSE", "EHPE", "HDOP"}]
    ELSE loc

\* The time / correction block.
LocationTimeDefault(loc) ==
    IF "TIME" \in loc.mask
    THEN IF "CORRECTION" \notin loc.mask
         THEN [loc EXCEPT !.correction = 0]
         ELSE loc
    ELSE [loc EXCEPT !.time = [year |-> 0, month |-> 1, day |-> 6,
                               hour |-> 0, minute |-> 0, second |-> 0,
                               millis |-> 0],
                     !.correction = 0, !.mask = {}, !.numsv = 0]

\* A variant: the altitude and the separation keep their value when the
\* ALTITUDE bit is clear
LocationNeutral_KeepAltitude(loc) ==
    [loc EXCEPT
       !.latitude   = IF "POSITION" \in loc.mask THEN @ ELSE 0,
       !.longitude  = IF "POSITION" \in loc.mask THEN @ ELSE 0,
       !.speed      = IF "SPEED" \in loc.mask THEN @ ELSE 0,
       !.course     = IF "COURSE" \in loc.mask THEN @ ELSE 0,
       !.climb      = IF "CLIMB" \in loc.mask THEN @ ELSE 0,
       !.ehpe       = IF "EHPE" \in loc.mask THEN @ ELSE 0,
       !.evpe       = IF "EVPE" \in loc.mask THEN @ ELSE 0,
       !.pdop       = IF "PDOP" \in loc.mask THEN @ ELSE 9999,
       !.hdop       = IF "HDOP" \in loc.mask THEN @ ELSE 9999,
       !.vdop       = IF "VDOP" \in loc.mask THEN @ ELSE 9999]

\* The neutral values of the fields whose bit is clear.
LocationNeutral(loc) ==
    [loc EXCEPT
       !.latitude   = IF "POSITION" \in loc.mask THEN @ ELSE 0,
       !.longitude  = IF "POSITION" \in loc.mask THEN @ ELSE 0,
       !.altitude   = IF "ALTITUDE" \in loc.mask THEN @ ELSE 0,
       !.separation = IF "ALTITUDE" \in loc.mask THEN @ ELSE 0,
       !.speed      = IF "SPEED" \in loc.mask THEN @ ELSE 0,
       !.course     = IF "COURSE" \in loc.mask THEN @ ELSE 0,
       !.climb      = IF "CLIMB" \in loc.mask THEN @ ELSE 0,
       !.ehpe       = IF "EHPE" \in loc.mask THEN @ ELSE 0,
       !.evpe       = IF "EVPE" \in loc.mask THEN @ ELSE 0,
       !.pdop       = IF "PDOP" \in loc.mask THEN @ ELSE 9999,
       !.hdop       = IF "HDOP" \in loc.mask THEN @ ELSE 9999,
       !.vdop       = IF "VDOP" \in loc.mask THEN @ ELSE 9999]

\* The event of the callback records, next to the location handed over, the
\* mask accumulated when gnss_location was entered.
gnss_location(w) ==
    LET loc == LocationNeutral(LocationTimeDefault(LocationTypeMask(w.dev.location)))
        w1 == Emit(w, [fn |-> "location_callback", location |-> loc,
                       accumulated |-> w.dev.location.mask])
    IN  SetDev(w1, [w1.dev EXCEPT !.location =
                       [loc EXCEPT !.type = 0, !.mask = {}]])

\* A variant: the counter is handed over as it is
gnss_satellites_NoClamp(w) ==
    Emit(w, [fn |-> "satellites_callback", satellites |-> w.dev.satellites])

gnss_satellites(w) ==
    LET sat == w.dev.satellites
        clamped == IF sat.count > GNSS_SATELLITES_COUNT_MAX
                   THEN [sat EXCEPT !.count = GNSS_SATELLITES_COUNT_MAX]
                   ELSE sat
        w1 == SetDev(w, [w.dev EXCEPT !.satellites = clamped])
    IN  Emit(w1, [fn |-> "satellites_callback", satellites |-> clamped])

-----------------------------------------------------------------------------
(* 4.C  NMEA sentence processor.                                           *)

nmea_start_sentence(d) ==
    LET c == d.nmea
        c1 == IF c.sequence = SEQ.GSA_END
              THEN [c EXCEPT !.sv_used_count = 0, !.sv_used_mask = {}]
              ELSE IF c.sequence = SEQ.GSV_END
              THEN [c EXCEPT !.sv_in_view_sentences = 0]
              ELSE c
    IN  [d EXCEPT !.nmea = [c1 EXCEPT !.sequence = SEQ.START]]

\* What one case of the switch in nmea_parse_sentence yields: the device and
\* sequence_next.
Field(d, next) == [dev |-> d, next |-> next]

\* case NMEA_FIELD_SEQUENCE_START: the address field
nmea_parse_start(d, data) ==
    LET id == Skip(data, 2)
    IN
    IF At(data, 0) = 80                                       \* 'P'
    THEN IF StrEq(data, <<80, 77, 84, 75, 48, 48, 49>>)       \* "PMTK001"
         THEN Field(d, SEQ.PMTK001_COMMAND)
         ELSE Field(d, SEQ.SKIP)
    ELSE IF At(data, 0) = 71 /\ At(data, 1) \in {80, 76, 78}  \* 'G', "PLN"
    THEN LET d1 == [d EXCEPT !.nmea.prefix = At(data, 1)]
         IN
         IF StrEq(id, <<71, 83, 65>>)                         \* "GSA"
         THEN IF "GPGGA" \in d1.seen
              THEN Field([d1 EXCEPT !.nmea.mask = {"PDOP", "VDOP"}],
                         SEQ.GSA_OPERATION)
              ELSE Field(d1, SEQ.SKIP)
         ELSE IF StrEq(id, <<71, 83, 86>>)                    \* "GSV"
         THEN IF d1.seen \cap {"GPGGA", "SOLUTION"} # {}
              THEN Field(d1, SEQ.GSV_SENTENCES)
              ELSE Field(d1, SEQ.SKIP)
         ELSE IF StrEq(id, <<71, 71, 65>>)                    \* "GGA"
         THEN Field([d1 EXCEPT
                       !.seen = @ \ {"GPGGA", "GPGSA", "GPGSV", "GLGSA",
                                     "GLGSV", "SOLUTION"},
                       !.nmea.mask = {"POSITION", "ALTITUDE", "HDOP"},
                       !.nmea.sv_in_view_sentences = 0,
                       !.nmea.sv_used_count = 0,
                       !.nmea.sv_used_mask = {},
                       !.satellites = ZeroSatellites],
                    SEQ.GGA_TIME)
         ELSE IF StrEq(id, <<71, 83, 84>>)                    \* "GST"
         THEN Field([d1 EXCEPT !.seen = @ \ {"GPGST", "SOLUTION"},
                               !.nmea.mask = {"EHPE", "EVPE"}],
                    SEQ.GST_TIME)
         ELSE IF StrEq(id, <<82, 77, 67>>)                    \* "RMC"
         THEN Field([d1 EXCEPT !.seen = @ \ {"GPRMC", "SOLUTION"},
                               !.nmea.mask = {"TIME", "SPEED", "COURSE"}],
                    SEQ.RMC_TIME)
         ELSE Field(d1, SEQ.SKIP)
    ELSE Field(d, SEQ.SKIP)

\* case GGA_TIME / GST_TIME / RMC_TIME
nmea_parse_field_time(d, data, next) ==
    LET t == nmea_parse_time(data)
        mismatch == /\ d.seen \cap {"GPGGA", "GPGST", "GPRMC"} # {}
                    /\ ~nmea_same_time(d.location.time, t)
        d1 == IF mismatch
              THEN [d EXCEPT !.seen = {}, !.location.type = 0,
                             !.location.mask = {}]
              ELSE d
    IN  IF At(data, 0) = 0
        THEN Field([d EXCEPT !.nmea.mask = @ \ {"TIME"}], next)
        ELSE IF t.ok
        THEN Field([d1 EXCEPT !.location.time.hour = t.hour,
                              !.location.time.minute = t.minute,
                              !.location.time.second = t.second,
                              !.location.time.millis = t.millis], next)
        ELSE Field(d, SEQ.SKIP)

\* A field "empty clears the bit, parsed is stored, else skip": the shape of
\* most numeric cases.  store(value) is the device with the value stored.
Signed(data) == IF At(data, 0) = 45 THEN Skip(data, 1) ELSE data     \* '-'

\* The GGA cases
nmea_parse_gga(d, data, next) ==
    LET seq == d.nmea.sequence
        empty == At(data, 0) = 0
        lat == nmea_parse_latitude(data)
        lon == nmea_parse_longitude(data)
        qual == nmea_parse_unsigned(data)
        hdop == nmea_parse_fixed(data, 2)
        alt == nmea_parse_fixed(Signed(data), 3)
        neg == At(data, 0) = 45
    IN
    CASE seq = SEQ.GGA_LATITUDE ->
           IF empty THEN Field([d EXCEPT !.nmea.mask = @ \ {"POSITION"}], next)
           ELSE IF lat.ok THEN Field([d EXCEPT !.location.latitude = lat.val], next)
           ELSE Field(d, SEQ.SKIP)
      [] seq = SEQ.GGA_LATITUDE_NS ->
           IF "POSITION" \in d.nmea.mask
           THEN IF At(data, 0) = 83                                   \* 'S'
                THEN Field([d EXCEPT !.location.latitude = -@], next)
                ELSE IF At(data, 0) # 78                              \* 'N'
                THEN Field(d, SEQ.SKIP)
                ELSE Field(d, next)
           ELSE Field(d, next)
      [] seq = SEQ.GGA_LONGITUDE ->
           IF empty THEN Field([d EXCEPT !.nmea.mask = @ \ {"POSITION"}], next)
           ELSE IF lon.ok THEN Field([d EXCEPT !.location.longitude = lon.val], next)
           ELSE Field(d, SEQ.SKIP)
      [] seq = SEQ.GGA_LONGITUDE_EW ->
           IF "POSITION" \in d.nmea.mask
           THEN IF At(data, 0) = 87                                   \* 'W'
                THEN Field([d EXCEPT !.location.longitude = -@], next)
                ELSE IF At(data, 0) # 69                              \* 'E'
                THEN Field(d, SEQ.SKIP)
                ELSE Field(d, next)
           ELSE Field(d, next)
      [] seq = SEQ.GGA_QUALITY ->
           IF empty \/ ~qual.ok THEN Field(d, SEQ.SKIP)
           ELSE Field([d EXCEPT !.location.quality = qual.val], next)
      [] seq = SEQ.GGA_HDOP ->
           IF empty THEN Field([d EXCEPT !.nmea.mask = @ \ {"HDOP"}], next)
           ELSE IF hdop.ok THEN Field([d EXCEPT !.location.hdop = hdop.val], next)
           ELSE Field(d, SEQ.SKIP)
      [] seq = SEQ.GGA_ALTITUDE ->
           IF empty THEN Field([d EXCEPT !.nmea.mask = @ \ {"ALTITUDE"}], next)
           ELSE IF alt.ok
           THEN Field([d EXCEPT !.location.altitude =
                          IF neg THEN -alt.val ELSE alt.val], next)
           ELSE Field(d, SEQ.SKIP)
      [] seq \in {SEQ.GGA_ALTITUDE_UNIT, SEQ.GGA_SEPARATION_UNIT} ->
           IF "ALTITUDE" \in d.nmea.mask /\ At(data, 0) # 77          \* 'M'
           THEN Field(d, SEQ.SKIP)
           ELSE Field(d, next)
      [] seq = SEQ.GGA_SEPARATION ->
           IF empty THEN Field([d EXCEPT !.nmea.mask = @ \ {"ALTITUDE"}], next)
           ELSE IF alt.ok
           THEN IF "ALTITUDE" \in d.nmea.mask
                THEN Field([d EXCEPT !.location.separation =
                               IF neg THEN -alt.val ELSE alt.val], next)
                ELSE Field(d, next)
           ELSE Field(d, SEQ.SKIP)
      [] seq = SEQ.GGA_DIFFERENTIAL_STATION -> Field(d, SEQ.GGA_END)
      [] OTHER -> Field(d, next)         \* GGA_NUMSV, GGA_DIFFERENTIAL_AGE

\* The GSA cases
nmea_parse_gsa(d, data, next) ==
    LET seq == d.nmea.sequence
        empty == At(data, 0) = 0
        svid == nmea_parse_unsigned(data)
        dop == nmea_parse_fixed(data, 2)
    IN
    CASE seq = SEQ.GSA_NAVIGATION ->
           IF At(data, 0) = 49                                        \* '1'
           THEN Field([d EXCEPT !.nmea.navigation = NMEA_NAVIGATION.NONE], next)
           ELSE IF At(data, 0) = 50                                   \* '2'
           THEN Field([d EXCEPT !.nmea.navigation = NMEA_NAVIGATION.D2], next)
           ELSE IF At(data, 0) = 51                                   \* '3'
           THEN Field([d EXCEPT !.nmea.navigation = NMEA_NAVIGATION.D3], next)
           ELSE Field(d, SEQ.SKIP)
      [] seq >= SEQ.GSA_SV_USED_PRN_1 /\ seq <= SEQ.GSA_SV_USED_PRN_12 ->
           IF empty THEN Field(d, next)
           ELSE IF svid.ok
           THEN IF svid.val >= 1 /\ svid.val <= 96
                THEN Field([d EXCEPT !.nmea.sv_used_mask = @ \cup {svid.val}],
                           next)
                ELSE Field(d, next)
           ELSE Field([d EXCEPT !.nmea.sv_used_count = 0,
                                !.nmea.sv_used_mask = {}], SEQ.SKIP)
      [] seq = SEQ.GSA_PDOP ->
           IF empty THEN Field([d EXCEPT !.nmea.mask = @ \ {"PDOP"}], next)
           ELSE IF dop.ok THEN Field([d EXCEPT !.location.pdop = dop.val], next)
           ELSE Field(d, SEQ.SKIP)
      [] seq = SEQ.GSA_VDOP ->
           IF empty
           THEN Field([d EXCEPT !.nmea.mask = @ \ {"VDOP"}], SEQ.GSA_END)
           ELSE IF dop.ok
           THEN Field([d EXCEPT !.location.vdop = dop.val], SEQ.GSA_END)
           ELSE Field(d, SEQ.SKIP)
      [] OTHER -> Field(d, next)                \* GSA_OPERATION, GSA_HDOP

\* The GST cases
nmea_parse_gst(d, data, next) ==
    LET seq == d.nmea.sequence
        empty == At(data, 0) = 0
        stddev == nmea_parse_fixed(data, 3)
    IN
    CASE seq = SEQ.GST_STDDEV_LATITUDE ->
           IF empty THEN Field([d EXCEPT !.nmea.mask = @ \ {"EHPE"}], next)
           ELSE IF stddev.ok
           THEN Field([d EXCEPT !.location.ehpe = stddev.val], next)
           ELSE Field(d, SEQ.SKIP)
      [] seq = SEQ.GST_STDDEV_LONGITUDE ->
           IF empty THEN Field([d EXCEPT !.nmea.mask = @ \ {"EHPE"}], next)
           ELSE IF stddev.ok
           THEN Field([d EXCEPT !.location.ehpe =
                          nmea_isqrt((@ * @) + (stddev.val * stddev.val))],
                      next)
           ELSE Field(d, SEQ.SKIP)
      [] seq = SEQ.GST_STDDEV_ALTITUDE ->
           IF empty
           THEN Field([d EXCEPT !.nmea.mask = @ \ {"EVPE"}], SEQ.GST_END)
           ELSE IF stddev.ok
           THEN Field([d EXCEPT !.location.evpe = stddev.val], SEQ.GST_END)
           ELSE Field(d, SEQ.SKIP)
      [] OTHER -> Field(d, next)   \* GST_RANGE .. GST_ORIENTATION


\* satellites.info[satellites.count] = entry (the caller has tested
\* satellites.count < GNSS_SATELLITES_COUNT_MAX)
SetInfo(sat, entry) ==
    [sat EXCEPT !.info = SubSeq(@, 1, sat.count) \o <<entry>>]

\* The GSV cases
nmea_parse_gsv(d, data, next) ==
    LET seq == d.nmea.sequence
        empty == At(data, 0) = 0
        num == nmea_parse_unsigned(data)
        abort == Field([d EXCEPT !.nmea.sv_in_view_sentences = 0], SEQ.SKIP)
        sat == d.satellites
        room == sat.count < GNSS_SATELLITES_COUNT_MAX
        cur == IF sat.count < Len(sat.info) THEN sat.info[sat.count + 1]
               ELSE [prn |-> 0, state |-> {}, snr |-> 0, elevation |-> 0,
                     azimuth |-> 0]
        index1 == (d.nmea.sv_in_view_index + 1) % 256
    IN
    CASE seq = SEQ.GSV_SENTENCES ->
           IF empty \/ ~num.ok THEN Field(d, SEQ.SKIP)
           ELSE IF d.nmea.sv_in_view_sentences = 0
           THEN Field([d EXCEPT !.nmea.sv_in_view_sentences = num.val % 256,
                                !.nmea.sv_in_view_count = 0,
                                !.nmea.sv_in_view_index = 0], next)
           ELSE IF d.nmea.sv_in_view_sentences # num.val
           THEN abort
           ELSE Field(d, next)
      [] seq = SEQ.GSV_CURRENT ->
           IF empty \/ ~num.ok THEN abort
           ELSE IF d.nmea.sv_in_view_index # (num.val - 1) * 4
           THEN abort
           ELSE Field(d, next)
      [] seq = SEQ.GSV_SV_IN_VIEW_COUNT ->
           IF empty \/ ~num.ok THEN abort
           ELSE Field([d EXCEPT !.nmea.sv_in_view_count = num.val % 256],
                      IF num.val = 0 THEN SEQ.GSV_END ELSE next)
      [] seq = SEQ.GSV_SV_IN_VIEW_ID ->
           IF empty \/ num.ok
           THEN IF room
                THEN Field([d EXCEPT !.satellites = SetInfo(sat,
                               [prn |-> IF empty THEN 255 ELSE num.val,
                                state |-> {"SEARCHING"}, snr |-> 0,
                                elevation |-> 0, azimuth |-> 0])], next)
                ELSE Field(d, next)
           ELSE abort
      [] seq = SEQ.GSV_SV_IN_VIEW_ELEV ->
           IF empty \/ num.ok
           THEN IF room
                THEN Field([d EXCEPT !.satellites = SetInfo(sat,
                               [cur EXCEPT !.elevation =
                                   IF empty THEN 0 ELSE num.val])], next)
                ELSE Field(d, next)
           ELSE abort
      [] seq = SEQ.GSV_SV_IN_VIEW_AZIM ->
           IF empty \/ num.ok
           THEN IF room
                THEN Field([d EXCEPT !.satellites = SetInfo(sat,
                               [cur EXCEPT !.azimuth =
                                   IF empty THEN 0 ELSE num.val])], next)
                ELSE Field(d, next)
           ELSE abort
      [] seq = SEQ.GSV_SV_IN_VIEW_SNR ->
           IF empty \/ num.ok
           THEN LET sat1 == IF room /\ ~empty
                            THEN SetInfo(sat, [cur EXCEPT
                                                 !.state = {"TRACKING"},
                                                 !.snr = num.val])
                            ELSE sat
                IN  Field([d EXCEPT
                             !.satellites = [sat1 EXCEPT !.count = @ + 1],
                             !.nmea.sv_in_view_index = index1],
                          IF index1 = d.nmea.sv_in_view_count \/ index1 % 4 = 0
                          THEN SEQ.GSV_END
                          ELSE SEQ.GSV_SV_IN_VIEW_ID)
           ELSE abort
      [] OTHER -> Field(d, next)

\* The date of the RMC sentence, ddmmyy, as years since 1980
RmcDate(date) ==
    LET day == date \div 10000
        month == (date - day * 10000) \div 100
        year == date - day * 10000 - month * 100
    IN  [day |-> day % 256, month |-> month,
         year |-> IF year < 80 THEN (2000 + year) - 1980
                  ELSE (1900 + year) - 1980]

\* The RMC cases
nmea_parse_rmc(d, data, next) ==
    LET seq == d.nmea.sequence
        empty == At(data, 0) = 0
        speed == nmea_parse_fixed(data, 3)
        course == nmea_parse_fixed(data, 5)
        date == nmea_parse_unsigned(data)
    IN
    CASE seq = SEQ.RMC_STATUS ->
           IF At(data, 0) = 65                                        \* 'A'
           THEN Field([d EXCEPT !.nmea.status = NMEA_STATUS.DATA_VALID], next)
           ELSE IF At(data, 0) = 86                                   \* 'V'
           THEN Field([d EXCEPT !.nmea.status =
                          NMEA_STATUS.RECEIVER_WARNING], next)
           ELSE Field(d, SEQ.SKIP)
      [] seq = SEQ.RMC_SPEED ->
           IF empty THEN Field([d EXCEPT !.nmea.mask = @ \ {"SPEED"}], next)
           ELSE IF speed.ok
           THEN Field([d EXCEPT !.location.speed =
                          (speed.val * 1852 + 1800) \div 3600], next)
           ELSE Field(d, SEQ.SKIP)
      [] seq = SEQ.RMC_COURSE ->
           IF empty THEN Field([d EXCEPT !.nmea.mask = @ \ {"COURSE"}], next)
           ELSE IF course.ok
           THEN Field([d EXCEPT !.location.course = course.val], next)
           ELSE Field(d, SEQ.SKIP)
      [] seq = SEQ.RMC_DATE ->
           IF empty THEN Field([d EXCEPT !.nmea.mask = @ \ {"TIME"}], next)
           ELSE IF date.ok
           THEN Field([d EXCEPT !.location.time.day = RmcDate(date.val).day,
                                !.location.time.month = RmcDate(date.val).month,
                                !.location.time.year = RmcDate(date.val).year],
                      next)
           ELSE Field(d, SEQ.SKIP)
      [] seq = SEQ.RMC_MODE -> Field(d, SEQ.RMC_END)
      [] OTHER -> Field(d, next)     \* RMC_LATITUDE .. RMC_LONGITUDE_EW,
                                     \* RMC_VARIATION, RMC_VARIATION_UNIT

\* The PMTK001 cases
nmea_parse_pmtk001(d, data, next) ==
    LET seq == d.nmea.sequence
        empty == At(data, 0) = 0
        num == nmea_parse_unsigned(data)
    IN
    CASE seq = SEQ.PMTK001_COMMAND ->
           IF empty \/ ~num.ok THEN Field(d, SEQ.SKIP)
           ELSE Field([d EXCEPT !.nmea.mtk_command = num.val % 65536], next)
      [] seq = SEQ.PMTK001_STATUS ->
           IF empty \/ ~num.ok THEN Field(d, SEQ.SKIP)
           ELSE Field([d EXCEPT !.nmea.mtk_status = num.val % 65536],
                      SEQ.PMTK001_END)
      [] OTHER -> Field(d, next)

\* The time field of a sentence restarts the fix cycle: it differs from the
\* time of the sentences accumulated so far.
TimestampReset(d, data) ==
    /\ d.nmea.sequence \in {SEQ.GGA_TIME, SEQ.GST_TIME, SEQ.RMC_TIME}
    /\ At(data, 0) # 0
    /\ nmea_parse_time(data).ok
    /\ d.seen \cap {"GPGGA", "GPGST", "GPRMC"} # {}
    /\ ~nmea_same_time(d.location.time, nmea_parse_time(data))

\* The address field opens a GGA sentence.
GgaStart(d, data) ==
    /\ d.nmea.sequence = SEQ.START
    /\ At(data, 0) = 71 /\ At(data, 1) \in {80, 76, 78}
    /\ StrEq(Skip(data, 2), <<71, 71, 65>>)

\* nmea_parse_sentence: one field.  sequence_next = sequence + 1 unless the
\* case says otherwise; a sequence value without a case keeps the default.
\* The coordinates the field stores in device->location
GgaParsed(d, data) ==
    IF At(data, 0) = 0 THEN {}
    ELSE IF d.nmea.sequence = SEQ.GGA_LATITUDE
    THEN IF nmea_parse_latitude(data).ok THEN {"latitude"} ELSE {}
    ELSE IF d.nmea.sequence = SEQ.GGA_LONGITUDE
    THEN IF nmea_parse_longitude(data).ok THEN {"longitude"} ELSE {}
    ELSE {}

\* The events of the field, for the history of the fix cycle
NmeaFieldEvents(w, data) ==
    IF TimestampReset(w.dev, data) \/ GgaStart(w.dev, data)
    THEN Emit(w, [fn |-> "cycle"])
    ELSE IF GgaParsed(w.dev, data) # {}
    THEN Emit(w, [fn |-> "parsed", fields |-> GgaParsed(w.dev, data)])
    ELSE w

\* switch (context->sequence)
NmeaCase(d, data, next) ==
    CASE d.nmea.sequence = SEQ.START -> nmea_parse_start(d, data)
      [] d.nmea.sequence = SEQ.SKIP -> Field(d, SEQ.SKIP)
      [] d.nmea.sequence \in {SEQ.GGA_TIME, SEQ.GST_TIME, SEQ.RMC_TIME} ->
           nmea_parse_field_time(d, data, next)
      [] d.nmea.sequence >= SEQ.GGA_LATITUDE
         /\ d.nmea.sequence <= SEQ.GGA_DIFFERENTIAL_STATION ->
           nmea_parse_gga(d, data, next)
      [] d.nmea.sequence >= SEQ.GSA_OPERATION
         /\ d.nmea.sequence <= SEQ.GSA_VDOP ->
           nmea_parse_gsa(d, data, next)
      [] d.nmea.sequence >= SEQ.GST_RANGE
         /\ d.nmea.sequence <= SEQ.GST_STDDEV_ALTITUDE ->
           nmea_parse_gst(d, data, next)
      [] d.nmea.sequence >= SEQ.GSV_SENTENCES
         /\ d.nmea.sequence <= SEQ.GSV_SV_IN_VIEW_SNR ->
           nmea_parse_gsv(d, data, next)
      [] d.nmea.sequence >= SEQ.RMC_STATUS
         /\ d.nmea.sequence <= SEQ.RMC_MODE ->
           nmea_parse_rmc(d, data, next)
      [] d.nmea.sequence \in {SEQ.PMTK001_COMMAND, SEQ.PMTK001_STATUS} ->
           nmea_parse_pmtk001(d, data, next)
      [] OTHER -> Field(d, next)

\* context->sequence = sequence_next
NmeaSequenceNext(w, r) ==
    SetDev(w, [r.dev EXCEPT !.nmea.sequence = r.next % 256])

\* nmea_parse_sentence: one field.  sequence_next = sequence + 1 unless the
\* case says otherwise; a sequence value without a case keeps the default.
nmea_parse_sentence(w, data) ==
    NmeaSequenceNext(NmeaFieldEvents(w, data),
                     NmeaCase(w.dev, data, w.dev.nmea.sequence + 1))

-----------------------------------------------------------------------------
(* 4.F  The command tables of the configuration driver.                    *)

\* The ubx_cfg_* / ubx_rxm_* byte arrays, by their names.
UBX_DATA ==
    [ ubx_cfg_msg_nav_pvt |->
        <<181, 98, 6, 1, 8, 0, 1, 7, 1, 1, 0, 0, 0, 0, 25, 231>>,
      ubx_cfg_msg_nav_timegps |->
        <<181, 98, 6, 1, 8, 0, 1, 32, 1, 1, 0, 0, 0, 0, 50, 150>>,
      ubx_cfg_msg_nav_dop |->
        <<181, 98, 6, 1, 8, 0, 1, 4, 1, 1, 0, 0, 0, 0, 22, 210>>,
      ubx_cfg_msg_nav_svinfo_1hz |->
        <<181, 98, 6, 1, 8, 0, 1, 48, 1, 1, 0, 0, 0, 0, 66, 6>>,
      ubx_cfg_msg_nav_svinfo_5hz |->
        <<181, 98, 6, 1, 8, 0, 1, 48, 5, 5, 0, 0, 0, 0, 74, 50>>,
      ubx_cfg_msg_nav_svinfo_10hz |->
        <<181, 98, 6, 1, 8, 0, 1, 48, 10, 10, 0, 0, 0, 0, 84, 105>>,
      ubx_cfg_msg_nmea_gga |->
        <<181, 98, 6, 1, 8, 0, 240, 0, 0, 0, 0, 0, 0, 0, 255, 35>>,
      ubx_cfg_msg_nmea_gll |->
        <<181, 98, 6, 1, 8, 0, 240, 1, 0, 0, 0, 0, 0, 0, 0, 42>>,
      ubx_cfg_msg_nmea_gsa |->
        <<181, 98, 6, 1, 8, 0, 240, 2, 0, 0, 0, 0, 0, 0, 1, 49>>,
      ubx_cfg_msg_nmea_gsv |->
        <<181, 98, 6, 1, 8, 0, 240, 3, 0, 0, 0, 0, 0, 0, 2, 56>>,
      ubx_cfg_msg_nmea_rmc |->
        <<181, 98, 6, 1, 8, 0, 240, 4, 0, 0, 0, 0, 0, 0, 3, 63>>,
      ubx_cfg_msg_nmea_vtg |->
        <<181, 98, 6, 1, 8, 0, 240, 5, 0, 0, 0, 0, 0, 0, 4, 70>>,
      ubx_cfg_rate_1hz |->
        <<181, 98, 6, 8, 6, 0, 232, 3, 1, 0, 1, 0, 1, 57>>,
      ubx_cfg_rate_5hz |->
        <<181, 98, 6, 8, 6, 0, 200, 0, 1, 0, 1, 0, 222, 106>>,
      ubx_cfg_rate_10hz |->
        <<181, 98, 6, 8, 6, 0, 100, 0, 1, 0, 1, 0, 122, 18>>,
      ubx_cfg_tp5 |->
        <<181, 98, 6, 49, 32, 0, 0, 0, 0, 0, 50, 0, 0, 0, 64, 66, 15, 0, 64,
          66, 15, 0, 64, 66, 15, 0, 160, 187, 13, 0, 0, 0, 0, 0, 55, 0, 0,
          0, 219, 6>>,
      ubx_cfg_pm2 |->
        <<181, 98, 6, 59, 44, 0, 1, 0, 0, 0, 0, 17, 2, 0, 232, 3, 0, 0, 16,
          39, 0, 0, 0, 0, 0, 0, 0, 0, 0, 0, 0, 0, 0, 0, 0, 0, 0, 0, 0, 0, 0,
          0, 0, 0, 0, 0, 0, 0, 0, 0, 163, 174>>,
      ubx_cfg_gnss_gps_enable |->
        <<181, 98, 6, 62, 12, 0, 0, 0, 255, 1, 0, 8, 16, 0, 1, 0, 1, 0, 106,
          71>>,
      ubx_cfg_gnss_gps_disable |->
        <<181, 98, 6, 62, 12, 0, 0, 0, 255, 1, 0, 8, 16, 0, 0, 0, 0, 0, 104,
          65>>,
      ubx_cfg_gnss_sbas_enable |->
        <<181, 98, 6, 62, 12, 0, 0, 0, 255, 1, 1, 1, 3, 0, 1, 0, 1, 0, 87,
          208>>,
      ubx_cfg_gnss_sbas_disable |->
        <<181, 98, 6, 62, 12, 0, 0, 0, 255, 1, 1, 1, 3, 0, 0, 0, 0, 0, 85,
          202>>,
      ubx_cfg_gnss_qzss_enable |->
        <<181, 98, 6, 62, 12, 0, 0, 0, 255, 1, 5, 0, 3, 0, 1, 0, 1, 0, 90,
          233>>,
      ubx_cfg_gnss_qzss_disable |->
        <<181, 98, 6, 62, 12, 0, 0, 0, 255, 1, 5, 0, 3, 0, 0, 0, 0, 0, 88,
          227>>,
      ubx_cfg_gnss_glonass_enable |->
        <<181, 98, 6, 62, 12, 0, 0, 0, 255, 1, 6, 8, 14, 0, 1, 0, 1, 0, 110,
          107>>,
      ubx_cfg_gnss_glonass_disable |->
        <<181, 98, 6, 62, 12, 0, 0, 0, 255, 1, 6, 8, 14, 0, 0, 0, 0, 0, 108,
          101>>,
      ubx_cfg_sbas_disable |->
        <<181, 98, 6, 22, 8, 0, 0, 0, 0, 0, 0, 0, 0, 0, 36, 138>>,
      ubx_cfg_sbas_auto |->
        <<181, 98, 6, 22, 8, 0, 1, 3, 3, 0, 137, 163, 7, 0, 94, 212>>,
      ubx_cfg_rxm_continuous |->
        <<255, 255, 255, 255, 255, 255, 255, 255, 181, 98, 6, 17, 2, 0, 0,
          0, 25, 129>>,
      ubx_cfg_rxm_powersave |->
        <<181, 98, 6, 17, 2, 0, 0, 1, 26, 130>>,
      ubx_cfg_save |->
        <<181, 98, 6, 9, 13, 0, 0, 0, 0, 0, 255, 255, 255, 255, 0, 0, 0, 0,
          1, 25, 156>>,
      ubx_rxm_pmreq |->
        <<181, 98, 2, 65, 8, 0, 0, 0, 0, 0, 2, 0, 0, 0, 77, 59>>,
      ubx_cfg_external_enable |->
        <<181, 98, 6, 19, 4, 0, 0, 0, 240, 185, 198, 102>>,
      ubx_cfg_external_disable |->
        <<181, 98, 6, 19, 4, 0, 1, 0, 240, 185, 199, 106>> ]

\* The sentences of the mtk_* tables, by their text (without the CR LF the
\* bytes end with).
MTK_DATA ==
    ("$PMTK314,0,1,0,1,1,1,1,1,0,0,0,0,0,0,0,0,0,0,0*28" :>
        <<36, 80, 77, 84, 75, 51, 49, 52, 44, 48, 44, 49, 44, 48, 44, 49,
          44, 49, 44, 49, 44, 49, 44, 49, 44, 48, 44, 48, 44, 48, 44, 48,
          44, 48, 44, 48, 44, 48, 44, 48, 44, 48, 44, 48, 44, 48, 42, 50,
          56, 13, 10>>)
    @@ ("$PMTK220,1000*1F" :>
        <<36, 80, 77, 84, 75, 50, 50, 48, 44, 49, 48, 48, 48, 42, 49, 70,
          13, 10>>)
    @@ ("$PMTK300,1000,0,0,0,0*1C" :>
        <<36, 80, 77, 84, 75, 51, 48, 48, 44, 49, 48, 48, 48, 44, 48, 44,
          48, 44, 48, 44, 48, 42, 49, 67, 13, 10>>)
    @@ ("$PMTK286,1*23" :>
        <<36, 80, 77, 84, 75, 50, 56, 54, 44, 49, 42, 50, 51, 13, 10>>)
    @@ ("$PMTK397,0*23" :>
        <<36, 80, 77, 84, 75, 51, 57, 55, 44, 48, 42, 50, 51, 13, 10>>)
    @@ ("$PMTK314,0,1,0,1,1,5,1,1,0,0,0,0,0,0,0,0,0,0,0*2C" :>
        <<36, 80, 77, 84, 75, 51, 49, 52, 44, 48, 44, 49, 44, 48, 44, 49,
          44, 49, 44, 53, 44, 49, 44, 49, 44, 48, 44, 48, 44, 48, 44, 48,
          44, 48, 44, 48, 44, 48, 44, 48, 44, 48, 44, 48, 44, 48, 42, 50,
          67, 13, 10>>)
    @@ ("$PMTK220,200*2C" :>
        <<36, 80, 77, 84, 75, 50, 50, 48, 44, 50, 48, 48, 42, 50, 67, 13, 10>>)
    @@ ("$PMTK300,200,0,0,0,0*2F" :>
        <<36, 80, 77, 84, 75, 51, 48, 48, 44, 50, 48, 48, 44, 48, 44, 48,
          44, 48, 44, 48, 42, 50, 70, 13, 10>>)
    @@ ("$PMTK353,1,1*37" :>
        <<36, 80, 77, 84, 75, 51, 53, 51, 44, 49, 44, 49, 42, 51, 55, 13, 10>>)
    @@ ("$PMTK353,1,0*36" :>
        <<36, 80, 77, 84, 75, 51, 53, 51, 44, 49, 44, 48, 42, 51, 54, 13, 10>>)
    @@ ("$PMTK301,2*2E" :>
        <<36, 80, 77, 84, 75, 51, 48, 49, 44, 50, 42, 50, 69, 13, 10>>)
    @@ ("$PMTK313,1*2E" :>
        <<36, 80, 77, 84, 75, 51, 49, 51, 44, 49, 42, 50, 69, 13, 10>>)
    @@ ("$PMTK301,0*2C" :>
        <<36, 80, 77, 84, 75, 51, 48, 49, 44, 48, 42, 50, 67, 13, 10>>)
    @@ ("$PMTK313,0*2F" :>
        <<36, 80, 77, 84, 75, 51, 49, 51, 44, 48, 42, 50, 70, 13, 10>>)
    @@ ("$PMTK351,0*29" :>
        <<36, 80, 77, 84, 75, 51, 53, 49, 44, 48, 42, 50, 57, 13, 10>>)
    @@ ("$PMTK352,0*2A" :>
        <<36, 80, 77, 84, 75, 51, 53, 50, 44, 48, 42, 50, 65, 13, 10>>)
    @@ ("$PMTK352,1*2B" :>
        <<36, 80, 77, 84, 75, 51, 53, 50, 44, 49, 42, 50, 66, 13, 10>>)

\* The mtk_*_table and ubx_*_table arrays of pointers; "NULL" ends a table.
TABLE ==
    [ mtk_init_table_1hz |->
        <<"$PMTK314,0,1,0,1,1,1,1,1,0,0,0,0,0,0,0,0,0,0,0*28",
          "$PMTK220,1000*1F", "$PMTK300,1000,0,0,0,0*1C", "$PMTK286,1*23",
          "$PMTK397,0*23", "NULL">>,
      mtk_init_table_5hz |->
        <<"$PMTK314,0,1,0,1,1,5,1,1,0,0,0,0,0,0,0,0,0,0,0*2C",
          "$PMTK220,200*2C", "$PMTK300,200,0,0,0,0*2F", "$PMTK286,1*23",
          "$PMTK397,0*23", "NULL">>,
      mtk_constellation_gps_glonass_table |->
        <<"$PMTK353,1,1*37", "NULL">>,
      mtk_constellation_gps_table |->
        <<"$PMTK353,1,0*36", "NULL">>,
      mtk_sbas_enable_table |->
        <<"$PMTK301,2*2E", "$PMTK313,1*2E", "NULL">>,
      mtk_sbas_disable_table |->
        <<"$PMTK301,0*2C", "$PMTK313,0*2F", "NULL">>,
      mtk_qzss_enable_table |->
        <<"$PMTK351,0*29", "$PMTK352,0*2A", "NULL">>,
      mtk_qzss_disable_table |->
        <<"$PMTK351,0*29", "$PMTK352,1*2B", "NULL">>,
      ubx_init_table_1hz |->
        <<"ubx_cfg_rxm_continuous", "ubx_cfg_pm2", "ubx_cfg_msg_nav_pvt",
          "ubx_cfg_msg_nav_timegps", "ubx_cfg_msg_nav_dop",
          "ubx_cfg_msg_nav_svinfo_1hz", "ubx_cfg_msg_nmea_gga",
          "ubx_cfg_msg_nmea_gll", "ubx_cfg_msg_nmea_gsa",
          "ubx_cfg_msg_nmea_gsv", "ubx_cfg_msg_nmea_rmc",
          "ubx_cfg_msg_nmea_vtg", "ubx_cfg_rate_1hz", "ubx_cfg_tp5",
          "ubx_cfg_gnss_glonass_enable", "ubx_cfg_gnss_sbas_enable",
          "ubx_cfg_gnss_qzss_disable", "ubx_cfg_sbas_auto", "ubx_cfg_save",
          "NULL">>,
      ubx_init_table_5hz |->
        <<"ubx_cfg_rxm_continuous", "ubx_cfg_pm2", "ubx_cfg_msg_nav_pvt",
          "ubx_cfg_msg_nav_timegps", "ubx_cfg_msg_nav_dop",
          "ubx_cfg_msg_nav_svinfo_5hz", "ubx_cfg_msg_nmea_gga",
          "ubx_cfg_msg_nmea_gll", "ubx_cfg_msg_nmea_gsa",
          "ubx_cfg_msg_nmea_gsv", "ubx_cfg_msg_nmea_rmc",
          "ubx_cfg_msg_nmea_vtg", "ubx_cfg_rate_5hz", "ubx_cfg_tp5",
          "ubx_cfg_gnss_glonass_enable", "ubx_cfg_gnss_sbas_enable",
          "ubx_cfg_gnss_qzss_disable", "ubx_cfg_sbas_auto", "ubx_cfg_save",
          "NULL">>,
      ubx_init_table_10hz |->
        <<"ubx_cfg_rxm_continuous", "ubx_cfg_pm2", "ubx_cfg_msg_nav_pvt",
          "ubx_cfg_msg_nav_timegps", "ubx_cfg_msg_nav_dop",
          "ubx_cfg_msg_nav_svinfo_10hz", "ubx_cfg_msg_nmea_gga",
          "ubx_cfg_msg_nmea_gll", "ubx_cfg_msg_nmea_gsa",
          "ubx_cfg_msg_nmea_gsv", "ubx_cfg_msg_nmea_rmc",
          "ubx_cfg_msg_nmea_vtg", "ubx_cfg_rate_10hz", "ubx_cfg_tp5",
          "ubx_cfg_gnss_glonass_enable", "ubx_cfg_gnss_sbas_enable",
          "ubx_cfg_gnss_qzss_disable", "ubx_cfg_sbas_auto", "ubx_cfg_save",
          "NULL">>,
      ubx_external_enable_table |->
        <<"ubx_cfg_rxm_continuous", "ubx_cfg_pm2",
          "ubx_cfg_external_enable", "ubx_cfg_save", "NULL">>,
      ubx_external_disable_table |->
        <<"ubx_cfg_rxm_continuous", "ubx_cfg_pm2",
          "ubx_cfg_external_disable", "ubx_cfg_save", "NULL">>,
      ubx_constellation_gps_table |->
        <<"ubx_cfg_rxm_continuous", "ubx_cfg_pm2",
          "ubx_cfg_gnss_glonass_disable", "ubx_cfg_save", "NULL">>,
      ubx_constellation_gps_glonass_table |->
        <<"ubx_cfg_rxm_continuous", "ubx_cfg_pm2",
          "ubx_cfg_gnss_glonass_enable", "ubx_cfg_save", "NULL">>,
      ubx_sbas_enable_table |->
        <<"ubx_cfg_rxm_continuous", "ubx_cfg_pm2",
          "ubx_cfg_gnss_sbas_enable", "ubx_cfg_sbas_auto", "ubx_cfg_save",
          "NULL">>,
      ubx_sbas_disable_table |->
        <<"ubx_cfg_rxm_continuous", "ubx_cfg_pm2",
          "ubx_cfg_gnss_sbas_disable", "ubx_cfg_sbas_disable",
          "ubx_cfg_save", "NULL">>,
      ubx_qzss_enable_table |->
        <<"ubx_cfg_rxm_continuous", "ubx_cfg_pm2",
          "ubx_cfg_gnss_qzss_enable", "ubx_cfg_save", "NULL">>,
      ubx_qzss_disable_table |->
        <<"ubx_cfg_rxm_continuous", "ubx_cfg_pm2",
          "ubx_cfg_gnss_qzss_disable", "ubx_cfg_save", "NULL">>,
      ubx_wakeup_table |->
        <<"ubx_cfg_rxm_continuous", "NULL">> ]


\* A pointer into a table of commands is the table and the index it points
\* at (0-based); NULL_TABLE is the null pointer.  "tx_table" is the array
\* device->tx_table, "tx_data" the buffer device->tx_data.
NULL_TABLE == [tbl |-> "NULL", idx |-> 0]

TableEntries(d, tbl) == IF tbl = "tx_table" THEN d.tx_table ELSE TABLE[tbl]

\* table[off] for a pointer table: the name of the command it holds, "NULL"
\* for the terminator, "OOB" for a slot outside the array.
TableAt(d, table, off) ==
    LET entries == TableEntries(d, table.tbl)
        i == table.idx + off
    IN  IF i >= 0 /\ i < Len(entries) THEN entries[i + 1] ELSE "OOB"

\* The bytes a command name points at.
Data(d, name) ==
    IF name = "tx_data" THEN d.tx_data
    ELSE IF name \in DOMAIN UBX_DATA THEN UBX_DATA[name]
    ELSE IF name \in DOMAIN MTK_DATA THEN MTK_DATA[name]
    ELSE << >>

\* (*device->send_routine)(context, data, count, callback)
Send(w, name, count, callback) ==
    Emit(w, [fn |-> "send", data |-> name, count |-> count,
             callback |-> callback])

\* The commands a trace hands to the send routine, in order
Sent(events) ==
    SelectSeq(events, LAMBDA e : e.fn = "send")

-----------------------------------------------------------------------------
(* 4.G  Configuration driver.                                              *)

MtkSendData(w, name, data) ==
    Send(SetDev(w, [w.dev EXCEPT
                      !.command = ((At(data, 5) - 48) * 10
                                   + (At(data, 6) - 48)) * 10
                                  + (At(data, 7) - 48),
                      !.busy = 1]),
         name, strlen(data), "gnss_send_callback")

mtk_send(w, name) == MtkSendData(w, name, Data(w.dev, name))

mtk_table(w, tbl) ==
    mtk_send(SetDev(w, [w.dev EXCEPT !.table = [tbl |-> tbl, idx |-> 1]]),
             TableAt(w.dev, [tbl |-> tbl, idx |-> 0], 0))

\* A variant: the end of the init table leaves the expected mask as it was
StepTable_KeepExpected(d, first, walking, expected) ==
    IF d.table = NULL_TABLE
    THEN [data |-> "NULL", dev |-> d]
    ELSE IF d.init = first
    THEN [data |-> TableAt(d, d.table, 0),
          dev |-> [d EXCEPT !.init = walking, !.table.idx = @ + 1]]
    ELSE IF TableAt(d, d.table, 0) # "NULL"
    THEN [data |-> TableAt(d, d.table, 0),
          dev |-> [d EXCEPT !.table.idx = @ + 1]]
    ELSE IF d.init = walking
    THEN [data |-> "NULL",
          dev |-> [d EXCEPT !.table = NULL_TABLE, !.init = GNSS_INIT.DONE,
                            !.seen = {},
                            !.location.type = 0, !.location.mask = {}]]
    ELSE [data |-> "NULL", dev |-> [d EXCEPT !.table = NULL_TABLE]]

\* The part of mtk_configure / ubx_configure that steps the table: the
\* command to send ("NULL" for none) and the device.  first is the init
\* phase that awaits the first input, walking the one whose end completes
\* the initialization, expected the steady-state mask installed then.
StepTable(d, first, walking, expected) ==
    IF d.table = NULL_TABLE
    THEN [data |-> "NULL", dev |-> d]
    ELSE IF d.init = first
    THEN [data |-> TableAt(d, d.table, 0),
          dev |-> [d EXCEPT !.init = walking, !.table.idx = @ + 1]]
    ELSE IF TableAt(d, d.table, 0) # "NULL"
    THEN [data |-> TableAt(d, d.table, 0),
          dev |-> [d EXCEPT !.table.idx = @ + 1]]
    ELSE IF d.init = walking
    THEN [data |-> "NULL",
          dev |-> [d EXCEPT !.table = NULL_TABLE, !.init = GNSS_INIT.DONE,
                            !.seen = {}, !.expected = expected,
                            !.location.type = 0, !.location.mask = {}]]
    ELSE [data |-> "NULL", dev |-> [d EXCEPT !.table = NULL_TABLE]]

\* The step of the table applied: the device updated, the command sent
MtkStep(w, s) ==
    IF s.data # "NULL" THEN mtk_send(SetDev(w, s.dev), s.data)
    ELSE SetDev(w, s.dev)

mtk_configure(w, response, command) ==
    MtkStep(w, StepTable(w.dev, GNSS_INIT.MTK_BAUD_RATE,
                         GNSS_INIT.MTK_INIT_TABLE,
                         {"GPGGA", "GPGSA", "GPGSV", "GPRMC"}))

\* ck_a += data[i]; ck_b += ck_a over data[from .. to - 1] (0-based)
RECURSIVE Fletcher(_, _, _, _, _)
Fletcher(data, from, to, ck_a, ck_b) ==
    IF from >= to THEN [ck_a |-> ck_a, ck_b |-> ck_b]
    ELSE Fletcher(data, from + 1, to, (ck_a + At(data, from)) % 256,
                  (ck_b + ((ck_a + At(data, from)) % 256)) % 256)

ubx_checksum(data) ==
    LET count == (At(data, 4) + At(data, 5) * 256) + 8
        ck == Fletcher(data, 2, count - 2, 0, 0)
    IN  [data EXCEPT ![count - 1] = ck.ck_a, ![count] = ck.ck_b]

UbxSendData(w, name, data) ==
    Send(SetDev(w, [w.dev EXCEPT
                      !.command = IF name = "ubx_cfg_rxm_continuous"
                                  THEN 1553                        \* 0x0611
                                  ELSE At(data, 2) * 256 + At(data, 3),
                      !.busy = 1]),
         name,
         IF name = "ubx_cfg_rxm_continuous" THEN Len(data)
         ELSE (At(data, 4) + At(data, 5) * 256) + 8,
         "gnss_send_callback")

ubx_send(w, name) == UbxSendData(w, name, Data(w.dev, name))

\* The command id ubx_send records for the bytes of a command
CommandOf(d, name) ==
    IF name = "ubx_cfg_rxm_continuous" THEN 1553
    ELSE At(Data(d, name), 2) * 256 + At(Data(d, name), 3)

ubx_table(w, tbl) ==
    ubx_send(SetDev(w, [w.dev EXCEPT !.table = [tbl |-> tbl, idx |-> 1]]),
             TableAt(w.dev, [tbl |-> tbl, idx |-> 0], 0))

\* stm32l0_rtc_timer_start(&device->ubx.timeout, 0, 8192, false) / _stop
TimerStart(w) == [w EXCEPT !.timer = TRUE]
TimerStop(w) == [w EXCEPT !.timer = FALSE]

\* The step of the table applied: the device updated, the command sent and
\* the retransmit timer armed
UbxStep(w, s) ==
    IF s.data # "NULL" THEN TimerStart(ubx_send(SetDev(w, s.dev), s.data))
    ELSE SetDev(w, s.dev)

ubx_configure(w, response, command) ==
    UbxStep(TimerStop(w),
            StepTable(w.dev, GNSS_INIT.UBX_BAUD_RATE,
                      GNSS_INIT.UBX_INIT_TABLE,
                      {"NAV_DOP", "NAV_PVT", "NAV_SVINFO", "NAV_TIMEGPS"}))

\* A variant: the expiry of the timer sends nothing
ubx_timeout_Idle(w) == w

\* A variant: the command is sent again but the timer is left stopped
ubx_timeout_NoRearm(w) ==
    IF w.dev.table # NULL_TABLE
    THEN ubx_send(w, TableAt(w.dev, w.dev.table, -1))
    ELSE w

ubx_timeout(w) ==
    IF w.dev.table # NULL_TABLE
    THEN TimerStart(ubx_send(w, TableAt(w.dev, w.dev.table, -1)))
    ELSE w

gnss_send_callback(w) == SetDev(w, [w.dev EXCEPT !.busy = 0])


-----------------------------------------------------------------------------
(* 4.C / 4.D  End of an NMEA sentence: correlation and publishing.         *)

\* location.mask |= the bits among names that the sentence left set
MergeMask(d, names) ==
    [d EXCEPT !.location.mask = @ \cup (d.nmea.mask \cap names)]

\* The switch on context->sequence, without the PMTK001_END case
NmeaEndSwitch(d) ==
    LET seq == d.nmea.sequence
        d1 == MergeMask(d,
                 CASE seq = SEQ.GGA_END -> {"POSITION", "ALTITUDE", "HDOP"}
                   [] seq = SEQ.GSA_END -> {"PDOP", "VDOP"}
                   [] seq = SEQ.GST_END -> {"EHPE", "EVPE"}
                   [] seq = SEQ.RMC_END -> {"TIME", "SPEED", "COURSE"}
                   [] OTHER -> {})
    IN
    CASE seq = SEQ.GGA_END ->
           [d1 EXCEPT !.seen = (@ \cup {"GPGGA"}) \ {"SOLUTION"}]
      [] seq = SEQ.GSA_END ->
           IF d.nmea.prefix = 78                                      \* 'N'
           THEN [d1 EXCEPT
                   !.expected = @ \cup {"GPGSA", "GPGSV", "GLGSA", "GLGSV"},
                   !.seen = IF "GPGSA" \notin @ THEN @ \cup {"GPGSA"}
                            ELSE (@ \cup {"GLGSA"}) \ {"SOLUTION"}]
           ELSE IF d.nmea.prefix = 76                                 \* 'L'
           THEN [d1 EXCEPT
                   !.expected = (@ \ {"GPGSA", "GPGSV"}) \cup {"GLGSA", "GLGSV"},
                   !.seen = (@ \cup {"GLGSA"}) \ {"SOLUTION"}]
           ELSE [d1 EXCEPT
                   !.expected = (@ \ {"GLGSA", "GLGSV"}) \cup {"GPGSA", "GPGSV"},
                   !.seen = (@ \cup {"GPGSA"}) \ {"SOLUTION"}]
      [] seq = SEQ.GST_END ->
           [d1 EXCEPT !.expected = @ \cup {"GPGST"},
                      !.seen = (@ \cup {"GPGST"}) \ {"SOLUTION"}]
      [] seq = SEQ.GSV_END ->
           IF d.nmea.sv_in_view_count = d.nmea.sv_in_view_index
           THEN [d EXCEPT !.nmea.sv_in_view_sentences = 0,
                          !.seen = IF d.nmea.prefix = 80              \* 'P'
                                   THEN @ \cup {"GPGSV"}
                                   ELSE IF d.nmea.prefix = 76         \* 'L'
                                   THEN @ \cup {"GLGSV"}
                                   ELSE @]
           ELSE d
      [] seq = SEQ.RMC_END ->
           [d1 EXCEPT !.seen = (@ \cup {"GPRMC"}) \ {"SOLUTION"}]
      [] OTHER -> d

\* A variant: the location waits for every sentence expected, GSV included
NmeaLocationDue_All(d) == d.expected \subseteq (d.seen \ {"GPGSV"})

\* (device->seen & expected) == expected for the location sentences
NmeaLocationDue(d) ==
    (d.expected \cap {"GPGGA", "GPGSA", "GPGST", "GPRMC", "GLGSA"}) \subseteq d.seen

\* A variant: the satellites do not wait for the solution
NmeaSatellitesDue_NoSolution(d) ==
    (d.expected \cap {"GPGSV", "GLGSV"}) \subseteq d.seen

\* SOLUTION is set and the expected GSV sentences have been seen
NmeaSatellitesDue(d) ==
    /\ "SOLUTION" \in d.seen
    /\ (d.expected \cap {"GPGSV", "GLGSV"}) \subseteq d.seen

\* The fix type and numsv taken from the RMC status and the GSA navigation
NmeaFixType(d) ==
    IF d.nmea.status = NMEA_STATUS.DATA_VALID
       /\ d.nmea.navigation # NMEA_NAVIGATION.NONE
    THEN [d EXCEPT !.location.type =
                       IF d.nmea.navigation = NMEA_NAVIGATION.D2
                       THEN GNSS_LOCATION_TYPE.D2 ELSE GNSS_LOCATION_TYPE.D3,
                   !.location.numsv = d.nmea.sv_used_count]
    ELSE [d EXCEPT !.location.type = GNSS_LOCATION_TYPE.NONE,
                   !.location.numsv = 0,
                   !.nmea.sv_used_count = 0, !.nmea.sv_used_mask = {}]

\* The loop over n < satellites.count that marks the satellites used in the
\* fix.  The counter is not clamped yet: for count above the array size the
\* loop reads info[n].prn past the array (the value is w.oob) and, when
\* that value is a used PRN, writes info[n].state past the array.
MarkNavigating(w) ==
    LET d == w.dev
        sat == d.satellites
        used == d.nmea.sv_used_mask
        marked == [i \in 1..Len(sat.info) |->
                     IF i <= sat.count /\ sat.info[i].prn \in used
                     THEN [sat.info[i] EXCEPT !.state = @ \cup {"NAVIGATING"}]
                     ELSE sat.info[i]]
        w1 == SetDev(w, [d EXCEPT !.satellites.info = marked])
    IN  IF sat.count > GNSS_SATELLITES_COUNT_MAX
        THEN Emit(w1, [fn |-> "overrun", array |-> "satellites.info",
                       index |-> sat.count - 1,
                       write |-> w.oob \in used])
        ELSE w1

\* The switch on context->sequence
NmeaEndDispatch(w) ==
    IF w.dev.nmea.sequence = SEQ.PMTK001_END
    THEN IF w.dev.command = w.dev.nmea.mtk_command
         THEN mtk_configure(
                  SetDev(w, [w.dev EXCEPT !.command = COMMAND_NONE]),
                  IF w.dev.nmea.mtk_status = 3 THEN GNSS_RESPONSE.ACK
                  ELSE GNSS_RESPONSE.NACK,
                  w.dev.nmea.mtk_command)
         ELSE w
    ELSE SetDev(w, NmeaEndSwitch(w.dev))

\* context->sequence = NMEA_FIELD_SEQUENCE_START
NmeaSequenceStart(w) ==
    SetDev(w, [w.dev EXCEPT !.nmea.sequence = SEQ.START])

\* device->seen after the location callback
NmeaLocationSeen(w) ==
    SetDev(w, [w.dev EXCEPT !.seen =
                 (@ \ {"GPGGA", "GPGSA", "GPGST", "GPRMC", "GLGSA"})
                 \cup {"SOLUTION"}])

\* The location sentences are complete
NmeaPublishLocation(w) ==
    IF NmeaLocationDue(w.dev)
    THEN NmeaLocationSeen(gnss_location(SetDev(w, NmeaFixType(w.dev))))
    ELSE w

\* device->seen after the satellites callback
NmeaSatellitesSeen(w) ==
    SetDev(w, [w.dev EXCEPT !.seen = @ \ {"GPGSV", "GLGSV"}])

\* The satellite sentences are complete
NmeaPublishSatellites(w) ==
    IF NmeaSatellitesDue(w.dev)
    THEN NmeaSatellitesSeen(gnss_satellites(MarkNavigating(w)))
    ELSE w

\* if (device->init == GNSS_INIT_DONE) { ... }
NmeaPublish(w) ==
    IF w.dev.init = GNSS_INIT.DONE
    THEN NmeaPublishSatellites(NmeaPublishLocation(w))
    ELSE w

nmea_end_sentence(w) ==
    NmeaPublish(NmeaSequenceStart(NmeaEndDispatch(
        Emit(w, [fn |-> "nmea_end_sentence"]))))


-----------------------------------------------------------------------------
(* 4.A  Time helpers.                                                      *)

\* C integer division (truncation towards zero)
CDiv(a, b) == IF a >= 0 THEN a \div b ELSE -((-a) \div b)

utc_days_since_month ==
    << <<0, 31, 59, 90, 120, 151, 181, 212, 243, 273, 304, 334>>,
       <<0, 31, 60, 91, 121, 152, 182, 213, 244, 274, 305, 335>> >>

utc_offset_time(time, week, tow) ==
    LET leap == IF time.year % 4 = 0 THEN 2 ELSE 1
        days == (time.year * 365 + (1 + CDiv(time.year - 1, 4)))
                + utc_days_since_month[leap][time.month]
                + (time.day - 1)
    IN  ((week * 604800) + ((tow + 500) \div 1000))
        - ((((((days - (6 - 1) * 24) + time.hour) * 60) + time.minute) * 60)
           + time.second)

-----------------------------------------------------------------------------
(* 4.D  UBX message processor.                                             *)

ubx_data_uint8(data, offset) == At(data, offset)

ubx_data_int8(data, offset) ==
    IF At(data, offset) >= 128 THEN At(data, offset) - 256 ELSE At(data, offset)

ubx_data_uint16(data, offset) == At(data, offset) + 256 * At(data, offset + 1)

ubx_data_int16(data, offset) ==
    At(data, offset) + 256 * ubx_data_int8(data, offset + 1)

\* little-endian, two's complement
ubx_data_int32(data, offset) ==
    At(data, offset) + 256 * At(data, offset + 1)
    + 65536 * At(data, offset + 2) + 16777216 * ubx_data_int8(data, offset + 3)

\* a uint32 is held as its two's complement
ubx_data_uint32(data, offset) == ubx_data_int32(data, offset)

ubx_start_message(d, message, length) ==
    IF message = 304                                              \* 0x0130
    THEN [d EXCEPT !.rx_chunk = 20, !.satellites = ZeroSatellites,
                   !.seen = @ \ {"NAV_SVINFO"}]
    ELSE d

\* The svid of UBX-NAV-SVINFO as the PRN of the satellite table
UbxPrn(svid) ==
    IF svid >= 1 /\ svid <= 32 THEN svid
    ELSE IF svid >= 33 /\ svid <= 64 THEN svid + (201 + 5 - 33)
    ELSE IF svid >= 65 /\ svid <= 96 THEN svid
    ELSE IF svid >= 120 /\ svid <= 151 THEN svid - 87
    ELSE IF svid >= 152 /\ svid <= 158 THEN svid
    ELSE IF svid >= 159 /\ svid <= 163 THEN svid + (201 - 159)
    ELSE IF svid >= 193 /\ svid <= 200 THEN svid
    ELSE IF svid = 255 THEN svid
    ELSE 0

\* The state of one satellite of UBX-NAV-SVINFO from its quality and flags
UbxSatState(quality, flags) ==
    IF (quality % 16) \in 2..7
    THEN {"TRACKING"}
         \cup (IF flags % 2 = 1 THEN {"NAVIGATING"} ELSE {})
         \cup (IF (flags \div 2) % 2 = 1 THEN {"CORRECTION"} ELSE {})
    ELSE {"SEARCHING"}

ubx_parse_message(d, message, data) ==
    LET svid == UbxPrn(ubx_data_uint8(data, 9))
        sat == d.satellites
        up == ubx_data_int8(data, 13) > 0
        entry == [prn |-> svid,
                  elevation |-> IF up THEN ubx_data_int8(data, 13) ELSE 0,
                  azimuth |-> IF up THEN ubx_data_int16(data, 14) ELSE 0,
                  snr |-> ubx_data_uint8(data, 12),
                  state |-> UbxSatState(ubx_data_uint8(data, 11),
                                        ubx_data_uint8(data, 10))]
        d1 == IF svid # 0 /\ sat.count < GNSS_SATELLITES_COUNT_MAX
              THEN [d EXCEPT !.satellites =
                       [SetInfo(sat, entry) EXCEPT !.count = @ + 1]]
              ELSE d
    IN  IF message = 304                                          \* 0x0130
        THEN [d1 EXCEPT !.rx_offset = (@ + 12) % 65536,
                        !.rx_chunk = (@ + 12) % 65536]
        ELSE d

\* case 0x07, UBX-NAV-PVT: the time
PvtTime(data) ==
    IF ubx_data_uint8(data, 11) % 4 = 3
    THEN [year |-> ubx_data_uint16(data, 4) - 1980,
          month |-> ubx_data_uint8(data, 6),
          day |-> ubx_data_uint8(data, 7),
          hour |-> ubx_data_uint8(data, 8),
          minute |-> ubx_data_uint8(data, 9),
          second |-> ubx_data_uint8(data, 10),
          millis |-> IF ubx_data_int32(data, 16) > 0
                     THEN CDiv(ubx_data_int32(data, 16) + 500000, 1000000)
                     ELSE 0]
    ELSE [year |-> 0, month |-> 1, day |-> 6, hour |-> 0, minute |-> 0,
          second |-> 0, millis |-> 0]

\* case 0x07, UBX-NAV-PVT: the quality of a 2D / 3D fix from the flags
PvtQuality(flags) ==
    IF flags \div 64 # 0
    THEN IF flags \div 128 # 0 THEN GNSS_LOCATION_QUALITY.RTK_FIXED
         ELSE GNSS_LOCATION_QUALITY.RTK_FLOAT
    ELSE IF flags % 2 = 1
    THEN IF (flags \div 2) % 2 = 1 THEN GNSS_LOCATION_QUALITY.DIFFERENTIAL
         ELSE GNSS_LOCATION_QUALITY.AUTONOMOUS
    ELSE GNSS_LOCATION_QUALITY.NONE

\* case 0x07, UBX-NAV-PVT: type and quality from fixType
PvtFix(loc, data) ==
    LET fix == ubx_data_uint8(data, 20)
        flags == ubx_data_uint8(data, 21)
    IN  CASE fix = 0 -> [loc EXCEPT !.type = GNSS_LOCATION_TYPE.NONE,
                                    !.quality = GNSS_LOCATION_QUALITY.NONE]
          [] fix = 1 -> [loc EXCEPT !.type = GNSS_LOCATION_TYPE.NONE,
                                    !.quality = GNSS_LOCATION_QUALITY.ESTIMATED]
          [] fix = 2 -> [loc EXCEPT !.type = GNSS_LOCATION_TYPE.D2,
                                    !.quality = PvtQuality(flags)]
          [] fix = 3 -> [loc EXCEPT !.type = GNSS_LOCATION_TYPE.D3,
                                    !.quality = PvtQuality(flags)]
          [] fix = 4 -> [loc EXCEPT !.type = GNSS_LOCATION_TYPE.D2,
                                    !.quality = GNSS_LOCATION_QUALITY.ESTIMATED]
          [] fix = 5 -> [loc EXCEPT !.type = GNSS_LOCATION_TYPE.TIME,
                                    !.quality = GNSS_LOCATION_QUALITY.NONE]
          [] OTHER -> loc

\* case 0x20, UBX-NAV-TIMEGPS: week and tow
TimeGps(data) ==
    LET tow0 == ubx_data_uint32(data, 0)
                + CDiv(ubx_data_int32(data, 4) + 500000, 1000000)
        week0 == ubx_data_uint16(data, 8)
        tow1 == IF tow0 < 0 THEN tow0 + 604800000 ELSE tow0
        week1 == IF tow0 < 0 THEN (week0 - 1) % 65536 ELSE week0
    IN  IF tow1 >= 604800000
        THEN [tow |-> tow1 - 604800000, week |-> (week1 + 1) % 65536]
        ELSE [tow |-> tow1, week |-> week1]


\* The itow of a message of class NAV differs from the one stored: the start
\* of a fix cycle.
ItowChange(d, message, data) ==
    message \div 256 = 1 /\ d.ubx.itow # ubx_data_uint32(data, 0)

\* ubx_end_message, the messages of class 0x01 (NAV)
UbxNav(d, message, data) ==
    LET d1 == IF d.seen \cap {"NAV_DOP", "NAV_PVT", "NAV_SVINFO",
                              "NAV_TIMEGPS", "SOLUTION"} # {}
                 /\ d.ubx.itow # ubx_data_uint32(data, 0)
              THEN [d EXCEPT !.seen = {}, !.location.type = 0,
                             !.location.mask = {}]
              ELSE d
        d2 == [d1 EXCEPT !.ubx.itow = ubx_data_uint32(data, 0)]
        id == message % 256
        tg == TimeGps(data)
    IN
    CASE id = 4 ->                                   \* 0x04 UBX-NAV-DOP
           [d2 EXCEPT !.location.pdop = ubx_data_uint16(data, 6),
                      !.location.hdop = ubx_data_uint16(data, 12),
                      !.location.vdop = ubx_data_uint16(data, 10),
                      !.location.mask = @ \cup {"PDOP", "HDOP", "VDOP"},
                      !.seen = @ \cup {"NAV_DOP"}]
      [] id = 7 ->                                   \* 0x07 UBX-NAV-PVT
           [d2 EXCEPT
              !.location = [PvtFix(@, data) EXCEPT
                  !.time = PvtTime(data),
                  !.latitude = ubx_data_int32(data, 28),
                  !.longitude = ubx_data_int32(data, 24),
                  !.altitude = ubx_data_int32(data, 36),
                  !.separation = ubx_data_int32(data, 32)
                                 - ubx_data_int32(data, 36),
                  !.speed = ubx_data_int32(data, 60),
                  !.course = ubx_data_int32(data, 64),
                  !.climb = -ubx_data_int32(data, 56),
                  !.ehpe = ubx_data_uint32(data, 40),
                  !.evpe = ubx_data_uint32(data, 44),
                  !.numsv = ubx_data_uint8(data, 23),
                  !.mask = @ \cup {"POSITION", "ALTITUDE", "SPEED", "COURSE",
                                   "CLIMB", "EHPE", "EVPE"}],
              !.seen = (@ \cup {"NAV_PVT"}) \ {"SOLUTION"}]
      [] id = 32 ->                                  \* 0x20 UBX-NAV-TIMEGPS
           IF ubx_data_uint8(data, 11) % 4 = 3
           THEN [d2 EXCEPT !.ubx.week = tg.week, !.ubx.tow = tg.tow,
                           !.location.correction = ubx_data_uint8(data, 10),
                           !.seen = (@ \cup {"NAV_TIMEGPS"}) \ {"SOLUTION"}]
           ELSE [d2 EXCEPT !.ubx.week = 0, !.ubx.tow = 0,
                           !.location.correction = 0,
                           !.seen = (@ \cup {"NAV_TIMEGPS"}) \ {"SOLUTION"}]
      [] id = 48 ->                                  \* 0x30 UBX-NAV-SVINFO
           [d2 EXCEPT !.seen = @ \cup {"NAV_SVINFO"}]
      [] OTHER -> d2

\* A publish test that waits for NAV-PVT alone
UbxLocationDue_PvtOnly(d) == "NAV_PVT" \in d.seen

\* (device->seen & expected) == expected for the location messages
UbxLocationDue(d) ==
    (d.expected \cap {"NAV_DOP", "NAV_PVT", "NAV_TIMEGPS"}) \subseteq d.seen

\* SOLUTION is set and the expected NAV-SVINFO has been seen
UbxSatellitesDue(d) ==
    /\ "SOLUTION" \in d.seen
    /\ (d.expected \cap {"NAV_SVINFO"}) \subseteq d.seen

\* The time of the fix is known: week and year are set
UbxFixTime(d) ==
    IF d.ubx.week # 0 /\ d.location.time.year # 0
    THEN [d EXCEPT
            !.location.correction =
                IF "NAV_TIMEGPS" \notin d.seen
                THEN utc_offset_time(d.location.time, d.ubx.week, d.ubx.tow)
                ELSE @,
            !.location.mask = @ \cup {"TIME", "CORRECTION"}]
    ELSE d

\* The switch on message >> 8: class NAV, and the answers ACK-NACK (0x0500)
\* and ACK-ACK (0x0501) to the pending command
\* The events of the message, for the history of the fix cycle
UbxCycleEvent(w, message, data) ==
    IF ItowChange(w.dev, message, data) THEN Emit(w, [fn |-> "cycle"])
    ELSE w

UbxParsedEvent(w, message) ==
    IF message = 263                                 \* 0x0107 UBX-NAV-PVT
    THEN Emit(w, [fn |-> "parsed", fields |-> {"latitude", "longitude"}])
    ELSE w

\* A variant: only ACK-ACK (0x0501) answers the pending command
UbxEndDispatch_AckOnly(w, message, data, command) ==
    IF message \div 256 = 1
    THEN SetDev(UbxParsedEvent(UbxCycleEvent(w, message, data), message),
                UbxNav(w.dev, message, data))
    ELSE IF message = 1281 /\ command = w.dev.command
    THEN ubx_configure(SetDev(w, [w.dev EXCEPT !.command = COMMAND_NONE]),
                       GNSS_RESPONSE.ACK, command)
    ELSE w

\* The switch on message >> 8: class NAV, and the answers ACK-NACK (0x0500)
\* and ACK-ACK (0x0501) to the pending command
UbxEndDispatch(w, message, data, command) ==
    IF message \div 256 = 1
    THEN SetDev(UbxParsedEvent(UbxCycleEvent(w, message, data), message),
                UbxNav(w.dev, message, data))
    ELSE IF message \in {1280, 1281} /\ command = w.dev.command
    THEN ubx_configure(SetDev(w, [w.dev EXCEPT !.command = COMMAND_NONE]),
                       IF message = 1280 THEN GNSS_RESPONSE.NACK
                       ELSE GNSS_RESPONSE.ACK,
                       command)
    ELSE w

\* device->seen after the location callback
UbxLocationSeen(w) ==
    SetDev(w, [w.dev EXCEPT !.seen =
                 (@ \ {"NAV_DOP", "NAV_PVT", "NAV_TIMEGPS"})
                 \cup {"SOLUTION"}])

UbxPublishLocation(w) ==
    IF UbxLocationDue(w.dev)
    THEN UbxLocationSeen(gnss_location(SetDev(w, UbxFixTime(w.dev))))
    ELSE w

\* device->seen after the satellites callback
UbxSatellitesSeen(w) ==
    SetDev(w, [w.dev EXCEPT !.seen = @ \ {"NAV_SVINFO"}])

UbxPublishSatellites(w) ==
    IF UbxSatellitesDue(w.dev)
    THEN UbxSatellitesSeen(gnss_satellites(w))
    ELSE w

\* if (device->init == GNSS_INIT_DONE) { ... }
UbxPublish(w) ==
    IF w.dev.init = GNSS_INIT.DONE
    THEN UbxPublishSatellites(UbxPublishLocation(w))
    ELSE w

ubx_end_message(w, message, data) ==
    UbxPublish(UbxEndDispatch(
        Emit(w, [fn |-> "ubx_end_message"]), message, data,
        ubx_data_uint8(data, 0) * 256 + ubx_data_uint8(data, 1)))


-----------------------------------------------------------------------------
(* 4.B  Framing: gnss_receive.                                             *)

\* The bytes of the C string at &device->rx_data[0]
RxString(d) == SubSeq(d.rx_data, 1, strlen(d.rx_data))

\* device->rx_data[index] = c.  rx_data is followed in gnss_device_t by
\* tx_data: the store at index GNSS_RX_DATA_SIZE lands on tx_data[0].
RxStore(w, index, c) ==
    IF index < GNSS_RX_DATA_SIZE
    THEN SetDev(w, [w.dev EXCEPT !.rx_data[index + 1] = c])
    ELSE Emit(SetDev(w, [w.dev EXCEPT
                           !.tx_data[index - GNSS_RX_DATA_SIZE + 1] = c]),
              [fn |-> "overrun", array |-> "rx_data", index |-> index,
               write |-> TRUE])

\* c == nmea_hex_ascii[device->checksum >> 4]
NmeaChecksum1(d, c) == c = nmea_hex_ascii(d.checksum \div 16)

\* A variant: the second checksum digit is not compared
NmeaChecksum2_AnyDigit(d, c) == TRUE

\* c == nmea_hex_ascii[device->checksum & 0x0f]
NmeaChecksum2(d, c) == c = nmea_hex_ascii(d.checksum % 16)

\* A variant: the second Fletcher sum is not compared
UbxChecksumOk_FirstSumOnly(d) == d.ubx.ck_a = 0

\* (device->ubx.ck_a == 0x00) && (device->ubx.ck_b == 0x00)
UbxChecksumOk(d) == d.ubx.ck_a = 0 /\ d.ubx.ck_b = 0

\* ck_a += c; ck_b += ck_a
UbxSum(d, c) ==
    [d EXCEPT !.ubx.ck_a = (@ + c) % 256,
              !.ubx.ck_b = (@ + ((d.ubx.ck_a + c) % 256)) % 256]

\* case GNSS_STATE_NMEA_PAYLOAD
\* device->state = s
SetState(w, s) == SetDev(w, [w.dev EXCEPT !.state = s])

\* nmea_parse_sentence(device, &device->rx_data[0], device->rx_count) on the
\* field that was just closed with a 0x00
NmeaParseField(w) == nmea_parse_sentence(w, RxString(w.dev))

\* device->rx_count = n
SetRxCount(w, n) == SetDev(w, [w.dev EXCEPT !.rx_count = n])

\* case GNSS_STATE_NMEA_PAYLOAD
\* After the field: '*' ends the payload, ',' starts the next field
NmeaFieldEnd(w, c) ==
    IF c = 42 THEN SetState(w, GNSS_STATE.NMEA_CHECKSUM_1)
    ELSE SetRxCount(w, 0)

\* device->checksum ^= c
NmeaSum(w, c) == SetDev(w, [w.dev EXCEPT !.checksum = Xor8(@, c)])

\* case GNSS_STATE_NMEA_PAYLOAD
ReceiveNmeaPayload(w, c) ==
    IF c = 42 \/ (c = 44 /\ w.dev.rx_count < GNSS_RX_DATA_SIZE)   \* '*' ','
    THEN NmeaFieldEnd(
             NmeaParseField(RxStore(IF c = 44 THEN NmeaSum(w, c) ELSE w,
                                    w.dev.rx_count, 0)),
             c)
    ELSE IF c >= 32 /\ c <= 127
    THEN IF w.dev.rx_count >= GNSS_RX_DATA_SIZE
         THEN SetState(w, GNSS_STATE.START)
         ELSE RxStore(SetRxCount(NmeaSum(w, c), w.dev.rx_count + 1),
                      w.dev.rx_count, c)
    ELSE SetState(w, GNSS_STATE.START)

\* case GNSS_STATE_NMEA_END_LF
\* The first sentence after the baud rate sentence starts the init table
NmeaEndConfigureMtk(w) ==
    IF w.dev.init = GNSS_INIT.MTK_BAUD_RATE
    THEN mtk_configure(w, GNSS_RESPONSE.NMEA_SENTENCE, COMMAND_NONE)
    ELSE w

NmeaEndConfigureUbx(w) ==
    IF w.dev.init = GNSS_INIT.UBX_BAUD_RATE
    THEN ubx_configure(w, GNSS_RESPONSE.NMEA_SENTENCE, COMMAND_NONE)
    ELSE w

\* case GNSS_STATE_NMEA_END_LF
ReceiveNmeaEnd(w, c) ==
    SetState(IF c = 10                                                \* LF
             THEN nmea_end_sentence(
                      NmeaEndConfigureUbx(NmeaEndConfigureMtk(w)))
             ELSE w,
             GNSS_STATE.START)

\* case GNSS_STATE_UBX_LENGTH_2
\* The state after the length: a message without payload has none to wait for
UbxAfterLength(d) ==
    [d EXCEPT !.state = IF d.rx_count = d.ubx.length
                        THEN GNSS_STATE.UBX_CK_A
                        ELSE GNSS_STATE.UBX_PAYLOAD]

\* case GNSS_STATE_UBX_LENGTH_2
ReceiveUbxLength2(w, c) ==
    SetDev(w, UbxAfterLength(
                  ubx_start_message(
                      [UbxSum(w.dev, c) EXCEPT
                         !.rx_count = 0, !.rx_offset = 0, !.rx_chunk = 65535,
                         !.ubx.length = @ + 256 * c],
                      w.dev.ubx.message, w.dev.ubx.length + 256 * c)))

\* case GNSS_STATE_UBX_PAYLOAD
\* device->rx_data[device->rx_count - device->rx_offset] = c, if inside
UbxStore(d, c) ==
    IF d.rx_count - d.rx_offset < GNSS_RX_DATA_SIZE
    THEN [d EXCEPT !.rx_data[d.rx_count - d.rx_offset + 1] = c,
                   !.rx_count = (@ + 1) % 65536]
    ELSE [d EXCEPT !.rx_count = (@ + 1) % 65536]

\* A chunk of the payload is complete
UbxChunk(d) ==
    IF d.rx_count = d.rx_chunk
    THEN ubx_parse_message(d, d.ubx.message, d.rx_data)
    ELSE d

\* A variant: the end of the payload is found one byte late
UbxAfterPayload_Late(d) ==
    IF d.rx_count = d.ubx.length + 1
    THEN [d EXCEPT !.state = GNSS_STATE.UBX_CK_A]
    ELSE d

\* The payload is complete
UbxAfterPayload(d) ==
    IF d.rx_count = d.ubx.length
    THEN [d EXCEPT !.state = GNSS_STATE.UBX_CK_A]
    ELSE d

\* case GNSS_STATE_UBX_PAYLOAD
ReceiveUbxPayload(w, c) ==
    SetDev(w, UbxAfterPayload(UbxChunk(UbxStore(UbxSum(w.dev, c), c))))

\* A CK_B case that leaves the init phase alone
UbxEndConfigure_Skip(w) == w

\* case GNSS_STATE_UBX_CK_B
\* The first message after the baud rate sentence starts the init table
UbxEndConfigure(w) ==
    IF w.dev.init = GNSS_INIT.UBX_BAUD_RATE
    THEN ubx_configure(w, GNSS_RESPONSE.UBX_MESSAGE, COMMAND_NONE)
    ELSE w

\* A variant: the message is processed whatever its length
UbxEnd_AnyLength(w) ==
    ubx_end_message(w, w.dev.ubx.message, w.dev.rx_data)

\* A message that did not fit rx_data is not processed
UbxEnd(w) ==
    IF w.dev.rx_count - w.dev.rx_offset <= GNSS_RX_DATA_SIZE
    THEN ubx_end_message(w, w.dev.ubx.message, w.dev.rx_data)
    ELSE w

UbxChecked(w) ==
    IF UbxChecksumOk(w.dev) THEN UbxEnd(UbxEndConfigure(w)) ELSE w

\* case GNSS_STATE_UBX_CK_B
ReceiveUbxCkB(w, c) ==
    SetState(UbxChecked(SetDev(w, [w.dev EXCEPT !.ubx.ck_b = Xor8(@, c)])),
             GNSS_STATE.START)

\* One turn of the while loop of gnss_receive: the byte c
\* One turn of the while loop of gnss_receive: the byte c
ReceiveByte(w, c) ==
    IF w.dev.state <= GNSS_STATE.NMEA_END_LF /\ c = 36                 \* '$'
    THEN SetDev(w, nmea_start_sentence(
                       [w.dev EXCEPT !.state = GNSS_STATE.NMEA_PAYLOAD,
                                     !.checksum = 0, !.rx_count = 0]))
    ELSE
    CASE w.dev.state = GNSS_STATE.START ->
           IF w.dev.mode = GNSS_MODE.UBLOX /\ c = 181                  \* 0xb5
           THEN SetState(w, GNSS_STATE.UBX_SYNC_2) ELSE w
      [] w.dev.state = GNSS_STATE.NMEA_PAYLOAD -> ReceiveNmeaPayload(w, c)
      [] w.dev.state = GNSS_STATE.NMEA_CHECKSUM_1 ->
           IF NmeaChecksum1(w.dev, c)
           THEN SetState(w, GNSS_STATE.NMEA_CHECKSUM_2)
           ELSE SetState(w, GNSS_STATE.START)
      [] w.dev.state = GNSS_STATE.NMEA_CHECKSUM_2 ->
           IF NmeaChecksum2(w.dev, c)
           THEN SetState(w, GNSS_STATE.NMEA_END_CR)
           ELSE SetState(w, GNSS_STATE.START)
      [] w.dev.state = GNSS_STATE.NMEA_END_CR ->
           IF c = 13 THEN SetState(w, GNSS_STATE.NMEA_END_LF)         \* CR
           ELSE SetState(w, GNSS_STATE.START)
      [] w.dev.state = GNSS_STATE.NMEA_END_LF -> ReceiveNmeaEnd(w, c)
      [] w.dev.state = GNSS_STATE.UBX_SYNC_2 ->
           IF c # 98 THEN SetState(w, GNSS_STATE.START)               \* 0x62
           ELSE SetState(w, GNSS_STATE.UBX_MESSAGE_1)
      [] w.dev.state = GNSS_STATE.UBX_MESSAGE_1 ->
           SetDev(w, [w.dev EXCEPT !.ubx.ck_a = c, !.ubx.ck_b = c,
                                   !.ubx.message = c * 256,
                                   !.state = GNSS_STATE.UBX_MESSAGE_2])
      [] w.dev.state = GNSS_STATE.UBX_MESSAGE_2 ->
           SetDev(w, [UbxSum(w.dev, c) EXCEPT
                        !.ubx.message = @ + c,
                        !.state = GNSS_STATE.UBX_LENGTH_1])
      [] w.dev.state = GNSS_STATE.UBX_LENGTH_1 ->
           SetDev(w, [UbxSum(w.dev, c) EXCEPT
                        !.ubx.length = c,
                        !.state = GNSS_STATE.UBX_LENGTH_2])
      [] w.dev.state = GNSS_STATE.UBX_LENGTH_2 -> ReceiveUbxLength2(w, c)
      [] w.dev.state = GNSS_STATE.UBX_PAYLOAD -> ReceiveUbxPayload(w, c)
      [] w.dev.state = GNSS_STATE.UBX_CK_A ->
           SetDev(w, [w.dev EXCEPT !.ubx.ck_a = Xor8(@, c),
                                   !.state = GNSS_STATE.UBX_CK_B])
      [] OTHER -> ReceiveUbxCkB(w, c)

\* gnss_receive(data, count): the while loop
\* The bytes data[from..to] are taken in order, each by one turn of the loop
RECURSIVE gnss_receive_from(_, _, _, _)
gnss_receive_from(w, data, from, to) ==
    IF from > to THEN w
    ELSE IF from = to THEN ReceiveByte([w EXCEPT !.pos = from], data[from])
    ELSE LET mid == (from + to) \div 2
             w1 == gnss_receive_from(w, data, from, mid)
         IN  \* (w1.pos = mid always: the test has w1 computed first)
             IF w1.pos = mid THEN gnss_receive_from(w1, data, mid + 1, to)
             ELSE w1

gnss_receive(w, data) == gnss_receive_from(w, data, 1, Len(data))


-----------------------------------------------------------------------------
(* 4.H  Public facade.                                                     *)

\* The static gnss_device before gnss_initialize: zeroed storage.
ZeroDevice ==
    [mode |-> 0, state |-> 0, busy |-> 0, init |-> 0, seen |-> {},
     expected |-> {}, checksum |-> 0, rx_count |-> 0, rx_offset |-> 0,
     rx_chunk |-> 0, table |-> NULL_TABLE,
     rx_data |-> [i \in 1..GNSS_RX_DATA_SIZE |-> 0],
     tx_data |-> [i \in 1..GNSS_TX_DATA_SIZE |-> 0],
     tx_table |-> [i \in 1..8 |-> "NULL"],
     nmea |-> ZeroNmea, ubx |-> ZeroUbx, location |-> ZeroLocation,
     satellites |-> ZeroSatellites, command |-> 0]

\* A variant: a transmission in progress does not keep the driver busy
gnss_done_TableOnly(d) == d.table = NULL_TABLE

gnss_done(d) == d.table = NULL_TABLE /\ d.busy = 0

\* The sentence that sets the baud rate of the receiver, without its CR LF
BaudSentence(mode, speed) ==
    IF mode = GNSS_MODE.UBLOX
    THEN IF speed >= 115200 THEN "$PUBX,41,1,0007,0003,115200,0*18"
         ELSE IF speed >= 57600 THEN "$PUBX,41,1,0007,0003,57600,0*2B"
         ELSE IF speed >= 38400 THEN "$PUBX,41,1,0007,0003,38400,0*20"
         ELSE IF speed >= 19200 THEN "$PUBX,41,1,0007,0003,19200,0*25"
         ELSE "$PUBX,41,1,0007,0003,9600,0*10"
    ELSE IF speed >= 115200 THEN "$PMTK251,115200*1F"
         ELSE IF speed >= 57600 THEN "$PMTK251,57600*2C"
         ELSE IF speed >= 38400 THEN "$PMTK251,38400*27"
         ELSE IF speed >= 19200 THEN "$PMTK251,19200*22"
         ELSE "$PMTK251,9600*17"

gnss_initialize(w, mode, rate, speed) ==
    LET d == [w.dev EXCEPT !.state = GNSS_STATE.START,
                           !.command = COMMAND_NONE, !.busy = 0,
                           !.location = ZeroLocation,
                           !.satellites = ZeroSatellites]
        uart == BaudSentence(mode, speed)
    IN
    IF mode = GNSS_MODE.UBLOX
    THEN Send(SetDev(w, [d EXCEPT
                 !.mode = mode, !.init = GNSS_INIT.UBX_BAUD_RATE,
                 !.table = [tbl |-> IF rate >= 10 THEN "ubx_init_table_10hz"
                                    ELSE IF rate >= 5 THEN "ubx_init_table_5hz"
                                    ELSE "ubx_init_table_1hz",
                            idx |-> 0]]),
              uart, Len(uart) + 2, "NULL")
    ELSE IF mode = GNSS_MODE.MEDIATEK
    THEN Send(SetDev(w, [d EXCEPT
                 !.mode = mode, !.init = GNSS_INIT.MTK_BAUD_RATE,
                 !.table = [tbl |-> IF rate >= 5 THEN "mtk_init_table_5hz"
                                    ELSE "mtk_init_table_1hz",
                            idx |-> 0]]),
              uart, Len(uart) + 2, "NULL")
    ELSE SetDev(w, [d EXCEPT
                 !.mode = GNSS_MODE.NMEA, !.init = GNSS_INIT.DONE,
                 !.table = NULL_TABLE,
                 !.expected = {"GPGGA", "GPGSA", "GPGSV", "GPRMC"}])

gnss_set_external(w, on) ==
    IF ~gnss_done(w.dev) THEN w
    ELSE IF w.dev.mode = GNSS_MODE.UBLOX
    THEN ubx_table(w, IF on THEN "ubx_external_enable_table"
                      ELSE "ubx_external_disable_table")
    ELSE w

\* glonass is mask & GNSS_CONSTELLATION_GLONASS
gnss_set_constellation(w, glonass) ==
    IF ~gnss_done(w.dev) THEN w
    ELSE IF w.dev.mode = GNSS_MODE.MEDIATEK
    THEN mtk_table(w, IF glonass THEN "mtk_constellation_gps_glonass_table"
                      ELSE "mtk_constellation_gps_table")
    ELSE IF w.dev.mode = GNSS_MODE.UBLOX
    THEN ubx_table(w, IF glonass THEN "ubx_constellation_gps_glonass_table"
                      ELSE "ubx_constellation_gps_table")
    ELSE w

gnss_set_sbas(w, on) ==
    IF ~gnss_done(w.dev) THEN w
    ELSE IF w.dev.mode = GNSS_MODE.MEDIATEK
    THEN mtk_table(w, IF on THEN "mtk_sbas_enable_table"
                      ELSE "mtk_sbas_disable_table")
    ELSE IF w.dev.mode = GNSS_MODE.UBLOX
    THEN ubx_table(w, IF on THEN "ubx_sbas_enable_table"
                      ELSE "ubx_sbas_disable_table")
    ELSE w

gnss_set_qzss(w, on) ==
    IF ~gnss_done(w.dev) THEN w
    ELSE IF w.dev.mode = GNSS_MODE.MEDIATEK
    THEN mtk_table(w, IF on THEN "mtk_qzss_enable_table"
                      ELSE "mtk_qzss_disable_table")
    ELSE IF w.dev.mode = GNSS_MODE.UBLOX
    THEN ubx_table(w, IF on THEN "ubx_qzss_enable_table"
                      ELSE "ubx_qzss_disable_table")
    ELSE w

\* The bytes of x, least significant first (x >> 0, x >> 8, ...)
Byte(x, k) == (x \div (256 ^ k)) % 256

\* The UBX-CFG-PM2 frame gnss_set_periodic builds in device->tx_data.  The
\* memset clears sizeof(GNSS_TX_DATA_SIZE) bytes, the size of an int.
PeriodicData(tx_data, onTime, period, force) ==
    LET updatePeriod == IF onTime = 0 THEN 1000 ELSE period * 1000
        searchPeriod == IF onTime = 0 THEN 10000 ELSE period * 1000
        set == (0 :> 181 @@ 1 :> 98 @@ 2 :> 6 @@ 3 :> 59 @@ 4 :> 44 @@
                5 :> 0 @@ 6 :> 1 @@ 10 :> 0 @@ 11 :> 1 @@
                12 :> (IF onTime # 0 /\ updatePeriod >= 10000
                       THEN (IF force THEN 1 ELSE 0) ELSE 2) @@
                13 :> 0 @@
                14 :> Byte(updatePeriod, 0) @@ 15 :> Byte(updatePeriod, 1) @@
                16 :> Byte(updatePeriod, 2) @@ 17 :> Byte(updatePeriod, 3) @@
                18 :> Byte(searchPeriod, 0) @@ 19 :> Byte(searchPeriod, 1) @@
                20 :> Byte(searchPeriod, 2) @@ 21 :> Byte(searchPeriod, 3) @@
                26 :> Byte(onTime, 0) @@ 27 :> Byte(onTime, 1))
               @@ [i \in {0, 1, 2, 3} |-> 0]
    IN  ubx_checksum([i \in 1..GNSS_TX_DATA_SIZE |->
                         IF (i - 1) \in DOMAIN set THEN set[i - 1]
                         ELSE tx_data[i]])

gnss_set_periodic(w, onTime, period, force) ==
    IF ~gnss_done(w.dev) THEN w
    ELSE IF w.dev.mode = GNSS_MODE.UBLOX
    THEN LET table == IF onTime # 0
                      THEN <<"ubx_cfg_rxm_continuous", "tx_data",
                             "ubx_cfg_rxm_powersave", "ubx_cfg_save", "NULL">>
                      ELSE <<"ubx_cfg_rxm_continuous", "tx_data",
                             "ubx_cfg_save", "NULL">>
             d == [w.dev EXCEPT
                     !.tx_data = PeriodicData(@, onTime, period, force),
                     !.tx_table = table \o SubSeq(@, Len(table) + 1, 8),
                     !.table = [tbl |-> "tx_table", idx |-> 1]]
         IN  ubx_send(SetDev(w, d), "ubx_cfg_rxm_continuous")
    ELSE w

gnss_sleep(w) ==
    IF ~gnss_done(w.dev) THEN w
    ELSE IF w.dev.mode = GNSS_MODE.UBLOX THEN ubx_send(w, "ubx_rxm_pmreq")
    ELSE w

gnss_wakeup(w) ==
    IF ~gnss_done(w.dev) THEN w
    ELSE IF w.dev.mode = GNSS_MODE.UBLOX
    THEN ubx_send(w, "ubx_cfg_rxm_continuous")
    ELSE w


-----------------------------------------------------------------------------
(* The receiver: the frames it sends.                                      *)

\* The sentences of the receiver, from the character after the '$' to the one
\* before the '*'.
NMEA_BODY ==
    [ gga_t1 |->    \* GPGGA,120000.000,4807.038,N,01131.000,E,1,08,0.9,545.4,M,46.9,M,,   checksum 57
        <<71, 80, 71, 71, 65, 44, 49, 50, 48, 48, 48, 48, 46, 48, 48, 48,
          44, 52, 56, 48, 55, 46, 48, 51, 56, 44, 78, 44, 48, 49, 49, 51,
          49, 46, 48, 48, 48, 44, 69, 44, 49, 44, 48, 56, 44, 48, 46, 57,
          44, 53, 52, 53, 46, 52, 44, 77, 44, 52, 54, 46, 57, 44, 77, 44, 44>>,
      gga_t2_empty |->    \* GPGGA,120001.000,,,,,1,08,0.9,545.4,M,46.9,M,,   checksum 6F
        <<71, 80, 71, 71, 65, 44, 49, 50, 48, 48, 48, 49, 46, 48, 48, 48,
          44, 44, 44, 44, 44, 49, 44, 48, 56, 44, 48, 46, 57, 44, 53, 52,
          53, 46, 52, 44, 77, 44, 52, 54, 46, 57, 44, 77, 44, 44>>,
      gsa_3d |->    \* GPGSA,A,3,05,12,,,,,,,,,,,1.5,0.9,1.2   checksum 3A
        <<71, 80, 71, 83, 65, 44, 65, 44, 51, 44, 48, 53, 44, 49, 50, 44,
          44, 44, 44, 44, 44, 44, 44, 44, 44, 44, 49, 46, 53, 44, 48, 46,
          57, 44, 49, 46, 50>>,
      gsa_2d |->    \* GPGSA,A,2,05,12,,,,,,,,,,,1.5,0.9,1.2   checksum 3B
        <<71, 80, 71, 83, 65, 44, 65, 44, 50, 44, 48, 53, 44, 49, 50, 44,
          44, 44, 44, 44, 44, 44, 44, 44, 44, 44, 49, 46, 53, 44, 48, 46,
          57, 44, 49, 46, 50>>,
      rmc_t1 |->    \* GPRMC,120000.000,A,4807.038,N,01131.000,E,0.5,54.7,230394,,,A   checksum 53
        <<71, 80, 82, 77, 67, 44, 49, 50, 48, 48, 48, 48, 46, 48, 48, 48,
          44, 65, 44, 52, 56, 48, 55, 46, 48, 51, 56, 44, 78, 44, 48, 49,
          49, 51, 49, 46, 48, 48, 48, 44, 69, 44, 48, 46, 53, 44, 53, 52,
          46, 55, 44, 50, 51, 48, 51, 57, 52, 44, 44, 44, 65>>,
      rmc_t2 |->    \* GPRMC,120001.000,A,4807.038,N,01131.000,E,0.5,54.7,230394,,,A   checksum 52
        <<71, 80, 82, 77, 67, 44, 49, 50, 48, 48, 48, 49, 46, 48, 48, 48,
          44, 65, 44, 52, 56, 48, 55, 46, 48, 51, 56, 44, 78, 44, 48, 49,
          49, 51, 49, 46, 48, 48, 48, 44, 69, 44, 48, 46, 53, 44, 53, 52,
          46, 55, 44, 50, 51, 48, 51, 57, 52, 44, 44, 44, 65>>,
      rmc_doc |->    \* GPRMC,123519,A,4807.038,N,01131.000,E,022.4,084.4,230394,003.1,W   checksum 6A
        <<71, 80, 82, 77, 67, 44, 49, 50, 51, 53, 49, 57, 44, 65, 44, 52,
          56, 48, 55, 46, 48, 51, 56, 44, 78, 44, 48, 49, 49, 51, 49, 46,
          48, 48, 48, 44, 69, 44, 48, 50, 50, 46, 52, 44, 48, 56, 52, 46,
          52, 44, 50, 51, 48, 51, 57, 52, 44, 48, 48, 51, 46, 49, 44, 87>>,
      gsv_odd |->    \* GPGSV,1,1,04,,40,083,46,00,17,308,41,100,07,344,39,25,22,228,45   checksum 49
        <<71, 80, 71, 83, 86, 44, 49, 44, 49, 44, 48, 52, 44, 44, 52, 48,
          44, 48, 56, 51, 44, 52, 54, 44, 48, 48, 44, 49, 55, 44, 51, 48,
          56, 44, 52, 49, 44, 49, 48, 48, 44, 48, 55, 44, 51, 52, 52, 44,
          51, 57, 44, 50, 53, 44, 50, 50, 44, 50, 50, 56, 44, 52, 53>>,
      gsa_none |->    \* GPGSA,A,1,,,,,,,,,,,,,1.5,0.9,1.2   checksum 3E
        <<71, 80, 71, 83, 65, 44, 65, 44, 49, 44, 44, 44, 44, 44, 44, 44,
          44, 44, 44, 44, 44, 44, 49, 46, 53, 44, 48, 46, 57, 44, 49, 46,
          50>>,
      gga_badlat |->    \* GPGGA,120000.000,9907.038,N,01131.000,E,1,08,0.9,545.4,M,46.9,M,,   checksum 5B
        <<71, 80, 71, 71, 65, 44, 49, 50, 48, 48, 48, 48, 46, 48, 48, 48,
          44, 57, 57, 48, 55, 46, 48, 51, 56, 44, 78, 44, 48, 49, 49, 51,
          49, 46, 48, 48, 48, 44, 69, 44, 49, 44, 48, 56, 44, 48, 46, 57,
          44, 53, 52, 53, 46, 52, 44, 77, 44, 52, 54, 46, 57, 44, 77, 44,
          44>>,
      gsv_1of2 |->    \* GPGSV,2,1,08,05,40,083,46,12,17,308,41,20,07,344,39,25,22,228,45   checksum 73
        <<71, 80, 71, 83, 86, 44, 50, 44, 49, 44, 48, 56, 44, 48, 53, 44,
          52, 48, 44, 48, 56, 51, 44, 52, 54, 44, 49, 50, 44, 49, 55, 44,
          51, 48, 56, 44, 52, 49, 44, 50, 48, 44, 48, 55, 44, 51, 52, 52,
          44, 51, 57, 44, 50, 53, 44, 50, 50, 44, 50, 50, 56, 44, 52, 53>>,

      gsv_2of2_five |->    \* GPGSV,2,2,05,07,10,100,30   checksum 48
        <<71, 80, 71, 83, 86, 44, 50, 44, 50, 44, 48, 53, 44, 48, 55, 44,
          49, 48, 44, 49, 48, 48, 44, 51, 48>>,

      gsv_2of3 |->    \* GPGSV,3,2,08,07,10,100,30   checksum 44
        <<71, 80, 71, 83, 86, 44, 51, 44, 50, 44, 48, 56, 44, 48, 55, 44,
          49, 48, 44, 49, 48, 48, 44, 51, 48>>,
      gsa_extra |->    \* GPGSA,A,3,05,12,,,,,,,,,,,1.5,0.9,1.2,1   checksum 27
        <<71, 80, 71, 83, 65, 44, 65, 44, 51, 44, 48, 53, 44, 49, 50, 44,
          44, 44, 44, 44, 44, 44, 44, 44, 44, 44, 49, 46, 53, 44, 48, 46,
          57, 44, 49, 46, 50, 44, 49>>,
      gsv_extra |->    \* GPGSV,1,1,04,05,40,083,46,12,17,308,41,20,07,344,39,25,22,228,45,1   checksum 61
        <<71, 80, 71, 83, 86, 44, 49, 44, 49, 44, 48, 52, 44, 48, 53, 44,
          52, 48, 44, 48, 56, 51, 44, 52, 54, 44, 49, 50, 44, 49, 55, 44,
          51, 48, 56, 44, 52, 49, 44, 50, 48, 44, 48, 55, 44, 51, 52, 52,
          44, 51, 57, 44, 50, 53, 44, 50, 50, 44, 50, 50, 56, 44, 52, 53,
          44, 49>>,

      gsv |->    \* GPGSV,1,1,04,05,40,083,46,12,17,308,41,20,07,344,39,25,22,228,45   checksum 7C
        <<71, 80, 71, 83, 86, 44, 49, 44, 49, 44, 48, 52, 44, 48, 53, 44,
          52, 48, 44, 48, 56, 51, 44, 52, 54, 44, 49, 50, 44, 49, 55, 44,
          51, 48, 56, 44, 52, 49, 44, 50, 48, 44, 48, 55, 44, 51, 52, 52,
          44, 51, 57, 44, 50, 53, 44, 50, 50, 44, 50, 50, 56, 44, 52, 53>> ]

\* The checksum of a sentence as its sender computes it
RECURSIVE XorRange(_, _, _)
XorRange(s, from, to) ==
    IF from > to THEN 0
    ELSE IF from = to THEN s[from]
    ELSE LET mid == (from + to) \div 2
         IN  Xor8(XorRange(s, from, mid), XorRange(s, mid + 1, to))

NmeaXor(body) == XorRange(body, 1, Len(body))

HexUpper(n) == IF n < 10 THEN 48 + n ELSE 55 + n             \* '0'.., 'A'..
HexLower(n) == IF n < 10 THEN 48 + n ELSE 87 + n             \* '0'.., 'a'..

\* "$" body "*" hh CR LF
NmeaFrame(body) ==
    <<36>> \o body \o <<42, HexUpper(NmeaXor(body) \div 16),
                        HexUpper(NmeaXor(body) % 16), 13, 10>>

\* The same sentence damaged on the line: its checksum no longer matches
NmeaFrameBad(body) ==
    <<36>> \o body \o <<42, HexUpper(NmeaXor(body) \div 16),
                        HexUpper(Xor8(NmeaXor(body) % 16, 1)), 13, 10>>

\* The same sentence with its checksum spelled in lower case
NmeaFrameLower(body) ==
    <<36>> \o body \o <<42, HexLower(NmeaXor(body) \div 16),
                        HexLower(NmeaXor(body) % 16), 13, 10>>

\* The decimal digits of n >= 0
RECURSIVE Decimal(_)
Decimal(n) ==
    IF n < 10 THEN <<48 + n>> ELSE Decimal(n \div 10) \o <<48 + (n % 10)>>

\* "PMTK001,<command>,<status>"
Pmtk001(command, status) ==
    <<80, 77, 84, 75, 48, 48, 49, 44>> \o Decimal(command) \o <<44>>
    \o Decimal(status)

\* The Fletcher sums of a binary frame as its sender computes them: ck_a is
\* the sum of the bytes, ck_b the sum of the running sums.
RECURSIVE SumRange(_, _, _)
SumRange(s, from, to) ==
    IF from > to THEN 0
    ELSE IF from = to THEN s[from]
    ELSE LET mid == (from + to) \div 2
         IN  SumRange(s, from, mid) + SumRange(s, mid + 1, to)

SumBytes(s) == SumRange(s, 1, Len(s))

SumWeighted(s) ==
    SumRange([i \in 1..Len(s) |-> (Len(s) - i + 1) * s[i]], 1, Len(s))

\* 0xb5 0x62 class id length payload ck_a ck_b
UbxFrame(message, payload) ==
    LET body == <<message \div 256, message % 256, Len(payload) % 256,
                  Len(payload) \div 256>> \o payload
    IN  <<181, 98>> \o body
        \o <<SumBytes(body) % 256, SumWeighted(body) % 256>>

\* The same frame damaged on the line: ck_b no longer matches
UbxFrameBad(message, payload) ==
    LET f == UbxFrame(message, payload)
    IN  [f EXCEPT ![Len(f)] = (@ + 1) % 256]

\* Little-endian fields of a payload
Le16(x) == <<Byte(x, 0), Byte(x, 1)>>
Le32(x) == <<Byte(x, 0), Byte(x, 1), Byte(x, 2), Byte(x, 3)>>
Zeros(n) == [i \in 1..n |-> 0]

\* UBX-NAV-DOP: iTOW, gDOP, pDOP, tDOP, vDOP, hDOP, nDOP, eDOP
NavDop(itow) ==
    UbxFrame(260, Le32(itow) \o Le16(180) \o Le16(150) \o Le16(100)
                  \o Le16(120) \o Le16(90) \o Le16(70) \o Le16(60))

\* UBX-NAV-PVT: a 3D fix on 1994-03-23 12:00:00 at 48.1173 N 11.5167 E
NavPvtPayload(itow) ==
    Le32(itow) \o Le16(1994) \o <<3, 23, 12, 0, 0, 3>> \o Le32(20)
    \o Le32(0) \o <<3, 1, 0, 8>> \o Le32(115166667) \o Le32(481173000)
    \o Le32(592300) \o Le32(545400) \o Le32(2500) \o Le32(4000)
    \o Le32(100) \o Le32(-50) \o Le32(-30) \o Le32(112) \o Le32(5470000)
    \o Le32(500) \o Le32(100000) \o Le16(150) \o Zeros(14)

NavPvt(itow) == UbxFrame(263, NavPvtPayload(itow))

\* UBX-NAV-PVT with the fixType (offset 20) fix
NavPvtFix(itow, fix) ==
    UbxFrame(263, [NavPvtPayload(itow) EXCEPT ![21] = fix])

\* UBX-NAV-TIMEGPS: iTOW, fTOW, week, leapS, valid, tAcc
NavTimeGpsPayload(itow) ==
    Le32(itow) \o Le32(0) \o Le16(741) \o <<9, 3>> \o Le32(20)

NavTimeGps(itow) == UbxFrame(288, NavTimeGpsPayload(itow))

\* UBX-NAV-SVINFO with n satellites: svid 1, 2, ... tracked and used
\* (chn, svid, flags, quality, cno, elev, azim, prRes: 12 bytes a satellite)
SvinfoBlocks(n) ==
    [k \in 1..(12 * n) |->
       LET svid == ((k - 1) \div 12) + 1
           at == (k - 1) % 12
       IN  CASE at = 0 -> svid - 1
             [] at = 1 -> svid
             [] at = 2 -> 1
             [] at = 3 -> 4
             [] at = 4 -> 40
             [] at = 5 -> 30
             [] at = 6 -> 120
             [] OTHER -> 0]

NavSvinfo(itow, n) ==
    UbxFrame(304, Le32(itow) \o <<n, 0, 0, 0>> \o SvinfoBlocks(n))

\* UBX-ACK-ACK / UBX-ACK-NACK of a command
AckAck(command) == UbxFrame(1281, <<command \div 256, command % 256>>)
AckNack(command) == UbxFrame(1280, <<command \div 256, command % 256>>)


-----------------------------------------------------------------------------
(* Bounds and inputs.                                                      *)

\* The satellites of the large UBX-NAV-SVINFO frame: one more than the table
\* holds.
MaxSvinfo == 33

\* GSV sentences are fed while the satellite counter is below this: in the
\* runs that follow the fix cycle, and in the runs that fill the table.
MaxInView == 8
MaxSatellites == 36

\* Length of the first part of a frame delivered in two buffers.
SplitAt == 12

Itows == {1000, 2000}

\* The values a read past the satellite table may yield as a PRN.
OobValues == {0, 5}

Modes == {GNSS_MODE.NMEA, GNSS_MODE.MEDIATEK, GNSS_MODE.UBLOX}
FixModes == {GNSS_MODE.NMEA, GNSS_MODE.UBLOX}
Rates == {1, 10}
Speeds == {9600, 115200}
OnTimes == {5}

First(frame) == SubSeq(frame, 1, SplitAt)
Rest(frame) == SubSeq(frame, SplitAt + 1, Len(frame))

GsvBuffers ==
    {NmeaFrame(NMEA_BODY.gsv), NmeaFrameBad(NMEA_BODY.gsv),
     NmeaFrame(NMEA_BODY.gsv_odd)}

\* The frames whose checksum was damaged on the line
DamagedBuffers ==
    {NmeaFrameBad(NMEA_BODY.rmc_t1), NmeaFrameBad(NMEA_BODY.gsv),
     NmeaFrameBad(NMEA_BODY.gga_t1), NmeaFrameLower(NMEA_BODY.gsa_3d),
     UbxFrameBad(288, NavTimeGpsPayload(1000))}

\* The sentences of a receiver that reports fixes, some damaged on the line
\* and one delivered in two buffers
NmeaBuffers ==
    {NmeaFrame(NMEA_BODY.gga_t1), NmeaFrame(NMEA_BODY.gsa_3d),
     NmeaFrame(NMEA_BODY.gsv), NmeaFrame(NMEA_BODY.rmc_t1)}
    \cup {NmeaFrameBad(NMEA_BODY.rmc_t1), NmeaFrameLower(NMEA_BODY.gsa_3d)}
    \cup {First(NmeaFrame(NMEA_BODY.rmc_t1)), Rest(NmeaFrame(NMEA_BODY.rmc_t1))}

\* The messages of a u-blox receiver that reports fixes, some damaged on the
\* line and one delivered in two buffers
UbxBuffers ==
    {NavDop(t) : t \in Itows} \cup {NavPvt(t) : t \in Itows}
    \cup {NavTimeGps(t) : t \in Itows}
    \cup {NavSvinfo(1000, 2)}
    \cup {UbxFrameBad(288, NavTimeGpsPayload(1000))}
    \cup {First(NavTimeGps(1000)), Rest(NavTimeGps(1000))}

\* The sentences and the messages of fixes of every type: none, time only,
\* 2D and 3D
FixTypeNmeaBuffers ==
    {NmeaFrame(NMEA_BODY.gga_t1), NmeaFrame(NMEA_BODY.rmc_t1),
     NmeaFrame(NMEA_BODY.gsa_none), NmeaFrame(NMEA_BODY.gsa_2d),
     NmeaFrame(NMEA_BODY.gsa_3d)}

FixTypes == {0, 2, 3, 5}

\* UBX-NAV-PVT with a payload padded with zeros to n bytes
NavPvtLong(itow, n) ==
    UbxFrame(263, NavPvtPayload(itow)
                  \o Zeros(n - Len(NavPvtPayload(itow))))

\* One byte more than rx_data holds
LongPayload == GNSS_RX_DATA_SIZE + 1

FixTypeUbxBuffers ==
    {NavDop(1000), NavTimeGps(1000)}
    \cup {NavPvtFix(1000, fix) : fix \in FixTypes}
    \cup {NavPvtLong(1000, LongPayload)}

\* The sentences of one fix cycle, and its messages with more satellites
\* than the table holds
CycleNmeaBuffers ==
    {NmeaFrame(NMEA_BODY.gga_t1), NmeaFrame(NMEA_BODY.gsa_3d),
     NmeaFrame(NMEA_BODY.gsv), NmeaFrame(NMEA_BODY.rmc_t1)}

CycleUbxBuffers ==
    {NavDop(1000), NavPvt(1000), NavTimeGps(1000),
     NavSvinfo(1000, MaxSvinfo)}

\* The sentences of two fix cycles; in the second the receiver has no
\* position
PositionBuffers ==
    {NmeaFrame(NMEA_BODY.gga_t1), NmeaFrame(NMEA_BODY.gga_t2_empty),
     NmeaFrame(NMEA_BODY.gsa_3d), NmeaFrame(NMEA_BODY.gsa_2d),
     NmeaFrame(NMEA_BODY.rmc_t1), NmeaFrame(NMEA_BODY.rmc_t2),
     NmeaFrame(NMEA_BODY.gsv_odd), NmeaFrameBad(NMEA_BODY.gga_t1),
     NmeaFrame(NMEA_BODY.rmc_doc)}

\* The bytes fed one at a time: '$', the two sync bytes, '*', CR and LF
FrameBytes == {36, 181, 98, 42, 13, 10}

\* As many bytes of a payload are fed one at a time
MaxFrameBytes == 2

\* The sentence without fields: $*00 CR LF
EmptySentence == <<36, 42, 48, 48, 13, 10>>

\* The beginnings of frames that are fed to a framing at rest
FramePieces ==
    {SubSeq(NavTimeGps(1000), 1, k) :
       k \in {6, SplitAt, Len(NavTimeGps(1000)) - 2,
              Len(NavTimeGps(1000)) - 1}}
    \cup {SubSeq(EmptySentence, 1, k) : k \in 2..5}

\* What is fed to the framing: a byte, unless a payload holds MaxFrameBytes
\* already, or a piece when the framing is at rest
FrameBuffers(h, d) ==
    (IF /\ d.state \in {GNSS_STATE.NMEA_PAYLOAD, GNSS_STATE.UBX_PAYLOAD}
        /\ Len(h.stream) >= MaxFrameBytes
     THEN {}
     ELSE {<<c>> : c \in FrameBytes})
    \cup (IF d.state = GNSS_STATE.START THEN FramePieces ELSE {})

\* The answers of the receiver to the command that awaits one
Answers(d) ==
    IF d.command < 0 \/ d.command > 65535 THEN {}
    ELSE IF d.mode = GNSS_MODE.MEDIATEK
    THEN {NmeaFrame(Pmtk001(d.command, 3)), NmeaFrame(Pmtk001(d.command, 2))}
    ELSE IF d.mode = GNSS_MODE.UBLOX
    THEN {AckAck(d.command), AckNack(d.command)}
    ELSE {}

\* A MediaTek acknowledge of the command that awaits an answer
MtkAnswers(d) ==
    IF d.command < 0 \/ d.command > 65535 THEN {}
    ELSE {NmeaFrame(Pmtk001(d.command, 3))}

\* A sentence the device does not decode
\* GPVTG,,T,,M,,N,,K,N   checksum 2C
VTG_BODY ==
    <<71, 80, 86, 84, 71, 44, 44, 84, 44, 44, 77, 44, 44, 78, 44, 44, 75, 44, 78>>

VtgFrame == NmeaFrame(VTG_BODY)

\* What a receiver that is being configured delivers: the answers and,
\* until the device has configured it, a sentence the device does not decode.
Buffers(d) ==
    Answers(d)
    \cup (IF d.init = GNSS_INIT.DONE THEN {} ELSE {VtgFrame})

\* What a receiver delivers that reports fixes once it is configured
Configured(d, nmea, ubx) ==
    IF d.table # NULL_TABLE \/ d.init # GNSS_INIT.DONE \/ d.busy # 0
    THEN Buffers(d)
    ELSE IF d.mode = GNSS_MODE.UBLOX THEN ubx
    ELSE nmea

\* A sentence adds at most four satellites: unless the table is nearly full
\* nothing is read past it and the value of such a read is immaterial.
Oob(d) ==
    IF d.satellites.count + 4 < GNSS_SATELLITES_COUNT_MAX THEN {0}
    ELSE OobValues

-----------------------------------------------------------------------------
(* Frames as the protocols define them.                                    *)

\* The bytes s[1..n] end with an NMEA sentence: '$', the payload without '$'
\* and '*', '*', the XOR of the payload as two upper case hex digits, CR LF.
NmeaFramed(s, n) ==
    \E i \in 1..(n - 5) :
       /\ s[i] = 36
       /\ \A k \in (i + 1)..(n - 5) : s[k] \notin {36, 42}
       /\ s[n - 4] = 42
       /\ s[n - 3] = HexUpper(NmeaXor(SubSeq(s, i + 1, n - 5)) \div 16)
       /\ s[n - 2] = HexUpper(NmeaXor(SubSeq(s, i + 1, n - 5)) % 16)
       /\ s[n - 1] = 13
       /\ s[n] = 10

\* The bytes s[1..n] end with a UBX frame: 0xb5 0x62, class, id, length,
\* payload and the Fletcher sums of class .. payload.
UbxFramed(s, n) ==
    \E i \in 1..(n - 7) :
       /\ s[i] = 181
       /\ s[i + 1] = 98
       /\ n = i + 7 + s[i + 4] + 256 * s[i + 5]
       /\ s[n - 1] = SumBytes(SubSeq(s, i + 2, n - 2)) % 256
       /\ s[n] = SumWeighted(SubSeq(s, i + 2, n - 2)) % 256

Framed(s, n) == n <= Len(s) /\ (NmeaFramed(s, n) \/ UbxFramed(s, n))

-----------------------------------------------------------------------------
(* History (for the properties only).                                      *)

\* hist.stream: the bytes received since the framing was last at rest, while
\* a frame is in progress.  hist.located: the location callbacks of the
\* running fix cycle, counted up to two.  hist.parsed: the coordinates
\* parsed in the running fix cycle.
NoHistory == [stream |-> << >>, located |-> 0, parsed |-> {}]

Plain(e) == [k \in DOMAIN e \ {"at"} |-> e[k]]

\* The event e of an operation that received the bytes s, as it is recorded:
\* with what the fix cycle held before it and whether a well-formed frame
\* ends at the byte that caused it.
Recorded(h, e, s, base) ==
    CASE e.fn = "location_callback" ->
           Plain(e) @@ [nth |-> Min(h.located + 1, 2), parsed |-> h.parsed,
                        framed |-> Framed(s, base + e.at)]
      [] e.fn = "satellites_callback" ->
           Plain(e) @@ [located |-> h.located,
                        framed |-> Framed(s, base + e.at)]
      [] e.fn \in {"nmea_end_sentence", "ubx_end_message"} ->
           Plain(e) @@ [framed |-> Framed(s, base + e.at)]
      [] OTHER -> Plain(e)

\* The history after the event e
HistEvent(h, e) ==
    CASE e.fn = "cycle" -> [h EXCEPT !.located = 0, !.parsed = {}]
      [] e.fn = "parsed" -> [h EXCEPT !.parsed = @ \cup e.fields]
      [] e.fn = "location_callback" ->
           [h EXCEPT !.located = Min(@ + 1, 2)]
      [] OTHER -> h

\* The history after the first n events of tr
RECURSIVE HistAfter(_, _, _)
HistAfter(h, tr, n) ==
    IF n = 0 THEN h ELSE HistEvent(HistAfter(h, tr, n - 1), tr[n])

Shown(tr) == {n \in 1..Len(tr) : tr[n].fn \notin {"cycle", "parsed"}}

\* The n-th smallest element of the set of numbers S
RECURSIVE Nth(_, _)
Nth(S, n) ==
    LET m == CHOOSE x \in S : \A y \in S : x <= y
    IN  IF n = 1 THEN m ELSE Nth(S \ {m}, n - 1)

\* The events of tr as they are recorded
RecordedTrace(h, tr, s) ==
    [n \in 1..Cardinality(Shown(tr)) |->
       Recorded(HistAfter(h, tr, Nth(Shown(tr), n) - 1),
                tr[Nth(Shown(tr), n)], s, Len(h.stream))]

\* The bytes of s that belong to the frame in progress: none when the
\* framing is at rest, those from the last '$' on within a sentence.
Pending(s, state) ==
    IF state = GNSS_STATE.START THEN << >>
    ELSE IF state <= GNSS_STATE.NMEA_END_LF /\ \E i \in 1..Len(s) : s[i] = 36
    THEN SubSeq(s, CHOOSE i \in 1..Len(s) :
                     s[i] = 36 /\ \A k \in (i + 1)..Len(s) : s[k] # 36,
                Len(s))
    ELSE s

-----------------------------------------------------------------------------
(* The state machine.                                                      *)

\* Nothing is on its way on the serial line
EmptyLink == [commands |-> << >>, answers |-> << >>]

Init ==
    /\ device = ZeroDevice
    /\ timer = FALSE
    /\ trace = << >>
    /\ op = [name |-> "none", ret |-> TRUE, damaged |-> FALSE]
    /\ hist = NoHistory
    /\ link = EmptyLink

\* The world an operation starts in
World(oob) ==
    [dev |-> device, timer |-> timer, trace |-> << >>, oob |-> oob, pos |-> 0]

\* The operation name has received buffer, returned ret and left the world w
Change(w, name, buffer, ret) ==
    /\ device' = w.dev
    /\ timer' = w.timer
    /\ trace' = RecordedTrace(hist, w.trace, hist.stream \o buffer)
    /\ op' = [name |-> name, ret |-> ret,
              damaged |-> buffer \in DamagedBuffers]
    /\ hist' = [HistAfter(hist, w.trace, Len(w.trace)) EXCEPT
                  !.stream = Pending(hist.stream \o buffer, w.dev.state)]

\* The same where the serial line is not looked at
Commit(w, name, buffer, ret) ==
    /\ Change(w, name, buffer, ret)
    /\ link' = link

Initialized == op.name # "none"

\* gnss_initialize(), once, with a mode out of modes
Initialize(modes) ==
    /\ ~Initialized
    /\ \E mode \in modes, rate \in Rates, speed \in Speeds :
         Commit(gnss_initialize(World(0), mode, rate, speed),
                "gnss_initialize", << >>, TRUE)

\* gnss_receive() of a buffer out of buffers; GSV sentences while the
\* satellite counter is below max
Receive(buffers, max) ==
    /\ Initialized
    /\ \E buffer \in buffers, oob \in Oob(device) :
         /\ buffer \in GsvBuffers => device.satellites.count < max
         /\ Commit(gnss_receive(World(oob), buffer), "gnss_receive", buffer,
                   TRUE)

GnssInitialize == Initialize(Modes)

GnssReceive == Receive(Buffers(device), MaxInView)

InitReceive ==
    Receive(Buffers(device) \cup MtkAnswers(device), MaxInView)

FixInitialize == Initialize(FixModes)

FixReceive ==
    Receive(Configured(device, NmeaBuffers, UbxBuffers), MaxInView)

CycleReceive ==
    Receive(Configured(device, CycleNmeaBuffers, CycleUbxBuffers),
            MaxSatellites)

\* gnss_initialize(), called again in whatever state the first session has
\* reached; the session that follows is not explored
Reinitialize ==
    /\ Initialized
    /\ op.name # "reinitialize"
    /\ \E mode \in FixModes, rate \in Rates, speed \in Speeds :
         Commit(gnss_initialize(World(0), mode, rate, speed),
                "reinitialize", << >>, TRUE)

\* The first session: the init table is walked, then the first frames of a
\* fix cycle arrive, one of them in part
ResetReceive ==
    /\ op.name # "reinitialize"
    /\ Receive(Configured(device,
                          {NmeaFrame(NMEA_BODY.gga_t1),
                           First(NmeaFrame(NMEA_BODY.rmc_t1))},
                          {NavDop(1000), First(NavTimeGps(1000))}),
               MaxInView)

FrameReceive == Receive(FrameBuffers(hist, device), MaxInView)

FixTypeReceive ==
    Receive(Configured(device, FixTypeNmeaBuffers, FixTypeUbxBuffers),
            MaxInView)

PositionInitialize == Initialize({GNSS_MODE.NMEA})

PositionReceive == Receive(PositionBuffers, MaxInView)

\* The retransmit timer expires: it is a one-shot timer
UbxTimeout ==
    /\ timer
    /\ Commit(ubx_timeout(TimerStop(World(0))), "ubx_timeout", << >>, TRUE)

\* The host has sent the bytes of a command
GnssSendCallback ==
    /\ device.busy = 1
    /\ Commit(gnss_send_callback(World(0)), "gnss_send_callback", << >>, TRUE)

ResetTimeout == op.name # "reinitialize" /\ UbxTimeout

ResetSendCallback == op.name # "reinitialize" /\ GnssSendCallback


\* The runtime controls: each returns gnss_done() as it was at the call
GnssSetExternal ==
    /\ Initialized
    /\ \E on \in BOOLEAN :
         Commit(gnss_set_external(World(0), on), "control", << >>,
                gnss_done(device))

GnssSetConstellation ==
    /\ Initialized
    /\ \E glonass \in BOOLEAN :
         Commit(gnss_set_constellation(World(0), glonass), "control", << >>,
                gnss_done(device))

GnssSetSbas ==
    /\ Initialized
    /\ \E on \in BOOLEAN :
         Commit(gnss_set_sbas(World(0), on), "control", << >>,
                gnss_done(device))

GnssSetQzss ==
    /\ Initialized
    /\ \E on \in BOOLEAN :
         Commit(gnss_set_qzss(World(0), on), "control", << >>,
                gnss_done(device))

GnssSetPeriodic ==
    /\ Initialized
    /\ \E onTime \in OnTimes, force \in {FALSE} :
         Commit(gnss_set_periodic(World(0), onTime, 10, force), "control",
                << >>, gnss_done(device))

GnssSleep ==
    /\ Initialized
    /\ Commit(gnss_sleep(World(0)), "control", << >>, gnss_done(device))

GnssWakeup ==
    /\ Initialized
    /\ Commit(gnss_wakeup(World(0)), "control", << >>, gnss_done(device))

Next ==
    \/ GnssInitialize
    \/ GnssReceive
    \/ UbxTimeout
    \/ GnssSendCallback
    \/ GnssSetExternal
    \/ GnssSetConstellation
    \/ GnssSetSbas
    \/ GnssSetQzss
    \/ GnssSetPeriodic
    \/ GnssSleep
    \/ GnssWakeup

Spec == Init /\ [][Next]_vars

\* The device while it configures a receiver that may answer in either
\* protocol
InitNext ==
    \/ GnssInitialize
    \/ InitReceive
    \/ UbxTimeout
    \/ GnssSendCallback

InitSpec == Init /\ [][InitNext]_vars

\* The device while the receiver reports fixes
FixNext ==
    \/ FixInitialize
    \/ FixReceive
    \/ UbxTimeout
    \/ GnssSendCallback

FixSpec == Init /\ [][FixNext]_vars

\* The device while the receiver repeats one fix cycle
CycleNext ==
    \/ FixInitialize
    \/ CycleReceive
    \/ UbxTimeout
    \/ GnssSendCallback

CycleSpec == Init /\ [][CycleNext]_vars

\* The device while the receiver reports fixes of every type
FixTypeNext ==
    \/ FixInitialize
    \/ FixTypeReceive
    \/ UbxTimeout
    \/ GnssSendCallback

FixTypeSpec == Init /\ [][FixTypeNext]_vars

\* The device in NMEA mode while the receiver loses its position
PositionNext ==
    \/ PositionInitialize
    \/ PositionReceive

PositionSpec == Init /\ [][PositionNext]_vars

\* A session that a second gnss_initialize() ends
ResetNext ==
    \/ FixInitialize
    \/ ResetReceive
    \/ ResetTimeout
    \/ ResetSendCallback
    \/ Reinitialize

ResetSpec == Init /\ [][ResetNext]_vars

\* The framing, fed byte by byte
FrameNext ==
    \/ FixInitialize
    \/ FrameReceive

FrameSpec == Init /\ [][FrameNext]_vars

-----------------------------------------------------------------------------
(* The u-blox receiver at the other end of the serial line.                *)

\* As many commands, and as many answers, are on their way at a time
MaxLink == 2

\* The commands the operation that left w has handed to the send routine,
\* each with its id and the index of its entry in the table: the table
\* pointer is past the entry sent last
Transmitted(w) ==
    LET sent == Sent(w.trace)
    IN  [i \in 1..Len(sent) |->
           [id |-> CommandOf(w.dev, sent[i].data),
            entry |-> w.dev.table.idx - 1 - (Len(sent) - i)]]

\* The commands that fit on the line are on their way; the others are lost
OnLine(commands) == SubSeq(commands, 1, Min(Len(commands), MaxLink))

\* An operation of the driver has left the world done; its commands go on
\* the line l
LinkCommit(done, name, buffer, ret, l) ==
    \E w \in {done} :
        /\ Change(w, name, buffer, ret)
        /\ link' = [l EXCEPT !.commands = OnLine(@ \o Transmitted(w))]

\* The frames that may carry the answer a: the receiver accepts the command
\* or refuses it
AnswerFrames(a) == {AckAck(a.id), AckNack(a.id)}

\* gnss_initialize() in u-blox mode, once, at 9600 baud
LinkInitialize ==
    /\ ~Initialized
    /\ \E rate \in Rates :
         Commit(gnss_initialize(World(0), GNSS_MODE.UBLOX, rate, 9600),
                "gnss_initialize", << >>, TRUE)

\* The receiver sends a navigation frame while the driver waits for one
LinkFrame ==
    /\ Initialized
    /\ device.init = GNSS_INIT.UBX_BAUD_RATE
    /\ LinkCommit(gnss_receive(World(0), NavDop(1000)), "gnss_receive",
                  NavDop(1000), TRUE, link)

\* The receiver takes a command off the line and answers it
LinkAnswer ==
    /\ link.commands # << >>
    /\ Len(link.answers) < MaxLink
    /\ link' = [commands |-> Tail(link.commands),
                answers |-> Append(link.answers, Head(link.commands))]
    /\ UNCHANGED <<device, timer, trace, op, hist>>

\* gnss_receive() of the answer that has arrived
LinkDeliver ==
    /\ link.answers # << >>
    /\ device.state = GNSS_STATE.START
    /\ \E frame \in AnswerFrames(Head(link.answers)) :
         LinkCommit(gnss_receive(World(0), frame), "gnss_receive", frame,
                    TRUE, [link EXCEPT !.answers = Tail(@)])

\* A command or an answer is lost on the line
LinkLose ==
    /\ \/ /\ link.commands # << >>
          /\ link' = [link EXCEPT !.commands = Tail(@)]
       \/ /\ link.answers # << >>
          /\ link' = [link EXCEPT !.answers = Tail(@)]
    /\ UNCHANGED <<device, timer, trace, op, hist>>

\* The retransmit timer expires
LinkTimeout ==
    /\ timer
    /\ LinkCommit(ubx_timeout(TimerStop(World(0))), "ubx_timeout", << >>,
                  TRUE, link)

\* The host has sent the bytes of a command
LinkSendCallback ==
    /\ device.busy = 1
    /\ LinkCommit(gnss_send_callback(World(0)), "gnss_send_callback", << >>,
                  TRUE, link)

\* The driver and the receiver it configures
LinkNext ==
    \/ LinkInitialize
    \/ LinkFrame
    \/ LinkAnswer
    \/ LinkDeliver
    \/ LinkLose
    \/ LinkTimeout
    \/ LinkSendCallback

LinkSpec == Init /\ [][LinkNext]_vars

\* LinkFrame can be taken: it always leaves the baud rate phase
FrameDue == Initialized /\ device.init = GNSS_INIT.UBX_BAUD_RATE

\* LinkDeliver can be taken: it always takes an answer off the line
DeliverDue == link.answers # << >> /\ device.state = GNSS_STATE.START

\* The receiver sends frames and answers the commands that reach it, the
\* answers that are not lost arrive, the timer fires and the host completes
\* its transmissions.  The weak fairness of LinkFrame and the strong
\* fairness of LinkDeliver are written out, with FrameDue and DeliverDue for
\* ENABLED <<LinkFrame>>_vars and ENABLED <<LinkDeliver>>_vars.
LinkLiveSpec ==
    /\ Init
    /\ [][LinkNext]_vars
    /\ ([]<>~FrameDue \/ []<><<LinkFrame>>_vars)
    /\ SF_vars(LinkAnswer)
    /\ (<>[]~DeliverDue \/ []<><<LinkDeliver>>_vars)
    /\ WF_vars(LinkTimeout)
    /\ WF_vars(LinkSendCallback)

-----------------------------------------------------------------------------
(* Properties.                                                             *)

\* The events of the last operation that are calls of fn
Calls(fn) == {n \in 1..Len(trace) : trace[n].fn = fn}

Callbacks == Calls("location_callback") \cup Calls("satellites_callback")

FrameEnds == Calls("nmea_end_sentence") \cup Calls("ubx_end_message")

\* C1: no location or satellites callback happens as a consequence of a frame
\* whose checksum does not match: every callback happens at the last byte of
\* a frame with a matching checksum, and a buffer that holds a damaged frame
\* causes none.
C1_NoCallbackFromBadChecksum ==
    /\ \A n \in Callbacks : trace[n].framed
    /\ op.damaged => Callbacks = {}

\* A damaged RMC sentence arrives when GGA and GSA have been seen: the intact
\* sentence would have published the fix.
C1_Witness ==
    /\ op.damaged
    /\ trace = << >>
    /\ {"GPGGA", "GPGSA"} \subseteq device.seen
    /\ "GPRMC" \notin device.seen

\* C2: a frame reaches nmea_end_sentence or ubx_end_message only if the
\* checksum it carries is the checksum of the bytes received: for a sentence
\* the XOR of the bytes between '$' and '*' as two upper case hex digits
\* followed by CR LF, for a binary frame the Fletcher sums over class, id,
\* length and payload.
C2_EndOnlyWithMatchingChecksum == \A n \in FrameEnds : trace[n].framed

\* A sentence and a binary frame have been dispatched
C2_Witness ==
    /\ FrameEnds # {}
    /\ \A n \in FrameEnds : trace[n].framed
    /\ device.init = GNSS_INIT.DONE

\* C3: every satellites callback is preceded by a location callback of the
\* same fix cycle.
C3_SatellitesAfterLocation ==
    \A n \in Calls("satellites_callback") : trace[n].located >= 1

\* A satellites callback in an operation that published no location: the
\* location of its cycle was published by an earlier frame.
C3_Witness ==
    /\ Calls("satellites_callback") # {}
    /\ Calls("location_callback") = {}

\* C4: the location callback fires at most once in a fix cycle, whatever
\* valid frames arrive, repeated ones included.
C4_LocationOncePerCycle ==
    \A n \in Calls("location_callback") : trace[n].nth = 1

\* C5: in every reachable state in which the init phase is not Done
\* (MTK-baud-rate, MTK-init-table, UBX-baud-rate, UBX-init-table) gnss_done()
\* returns false.
C5_NotDoneWhileInit == device.init # GNSS_INIT.DONE => ~gnss_done(device)

\* C6: whenever gnss_done() returns true no command table is being walked,
\* no transmission is in progress (busy clear) and no command id is awaiting
\* its acknowledgement (the pending command id is the 'none' value),
\* including after gnss_sleep and gnss_wakeup.
C6_DoneMeansIdle ==
    Initialized /\ gnss_done(device) =>
        /\ device.table = NULL_TABLE
        /\ device.busy = 0
        /\ device.command = COMMAND_NONE

\* The driver walks a table or a transmission is in progress: gnss_done()
\* returns false
Occupied == device.table # NULL_TABLE \/ device.busy # 0

\* C7: a runtime control (gnss_set_external, gnss_set_constellation,
\* gnss_set_sbas, gnss_set_qzss, gnss_set_periodic, gnss_sleep, gnss_wakeup)
\* called while gnss_done() is false returns false, does not invoke the send
\* routine, and leaves the table pointer, the pending command id, the busy
\* flag, the tx staging buffer and the retransmit timer unchanged.
C7_ControlRejectedWhileBusy ==
    [][(op'.name = "control" /\ Occupied) =>
           /\ op'.ret = FALSE
           /\ trace' = << >>
           /\ device'.table = device.table
           /\ device'.command = device.command
           /\ device'.busy = device.busy
           /\ device'.tx_data = device.tx_data
           /\ timer' = timer]_vars

\* A control has been rejected while the u-blox init table was walked with
\* the retransmit timer armed
C7_Witness ==
    /\ op.name = "control"
    /\ op.ret = FALSE
    /\ device.table # NULL_TABLE
    /\ device.busy = 1
    /\ timer

\* The locations handed to the location callback by the last operation
Published == {trace[n].location : n \in Calls("location_callback")}

\* C8: at every invocation of the location callback each field whose
\* validity bit is clear in the published mask reads its neutral value:
\* latitude/longitude 0 without POSITION, altitude and separation 0 without
\* ALTITUDE, speed 0 without SPEED, course 0 without COURSE, climb 0 without
\* CLIMB, ehpe/evpe 0 without EHPE/EVPE, pdop/hdop/vdop 9999 without
\* PDOP/HDOP/VDOP.
C8_ClearBitReadsNeutral ==
    \A loc \in Published :
        /\ "POSITION" \notin loc.mask => loc.latitude = 0 /\ loc.longitude = 0
        /\ "ALTITUDE" \notin loc.mask => loc.altitude = 0 /\ loc.separation = 0
        /\ "SPEED" \notin loc.mask => loc.speed = 0
        /\ "COURSE" \notin loc.mask => loc.course = 0
        /\ "CLIMB" \notin loc.mask => loc.climb = 0
        /\ "EHPE" \notin loc.mask => loc.ehpe = 0
        /\ "EVPE" \notin loc.mask => loc.evpe = 0
        /\ "PDOP" \notin loc.mask => loc.pdop = 9999
        /\ "HDOP" \notin loc.mask => loc.hdop = 9999
        /\ "VDOP" \notin loc.mask => loc.vdop = 9999

\* A 2D fix is published: the altitude, the separation and the PDOP and VDOP
\* that GGA and GSA delivered are not part of it
C8_Witness ==
    \E loc \in Published :
        /\ loc.type = GNSS_LOCATION_TYPE.D2
        /\ {"POSITION", "HDOP"} \subseteq loc.mask
        /\ loc.mask \cap {"ALTITUDE", "PDOP", "VDOP"} = {}
        /\ loc.altitude = 0
        /\ loc.pdop = 9999

\* C9: whenever a location is published with the POSITION bit set, both the
\* latitude and the longitude it carries were parsed from frames of that
\* same fix cycle; a GGA with an empty latitude or longitude field never
\* leads to a publish whose coordinates stem from an earlier cycle.
C9_PositionParsedInCycle ==
    \A n \in Calls("location_callback") :
        "POSITION" \in trace[n].location.mask =>
            {"latitude", "longitude"} \subseteq trace[n].parsed

\* The lists handed to the satellites callback by the last operation
Lists == {trace[n].satellites : n \in Calls("satellites_callback")}

\* What the satellite table stores of its entries, the mark of the
\* satellites used in the fix aside
Stored(info) ==
    [i \in 1..Len(info) |-> [info[i] EXCEPT !.state = @ \ {"NAVIGATING"}]]

\* C10: at every invocation of the satellites callback the list length is at
\* most 32, in NMEA and in binary mode; satellites beyond the 32nd reported
\* in a cycle are dropped and do not alter the first 32 stored entries: the
\* sentences that follow a full table leave its entries as they are, and the
\* list of a binary frame holds the first 32 satellites of the frame (the
\* frames carry the svids 1, 2, ... in this order).
C10_ListAtMost32 ==
    [][/\ \A sat \in Lists' :
            /\ sat.count <= GNSS_SATELLITES_COUNT_MAX
            /\ Len(sat.info) <= GNSS_SATELLITES_COUNT_MAX
            /\ device'.mode = GNSS_MODE.UBLOX =>
                   \A i \in 1..Len(sat.info) : sat.info[i].prn = i
       /\ ( /\ device.mode # GNSS_MODE.UBLOX
            /\ op'.name = "gnss_receive"
            /\ device.satellites.count >= GNSS_SATELLITES_COUNT_MAX
            /\ device'.satellites.count >= GNSS_SATELLITES_COUNT_MAX )
          => Stored(device'.satellites.info) = Stored(device.satellites.info)
      ]_vars

\* A list of 32 satellites is handed over by a sentence that found more than
\* 32 of them counted
C10_Witness ==
    /\ device.mode = GNSS_MODE.NMEA
    /\ \E sat \in Lists : sat.count = GNSS_SATELLITES_COUNT_MAX
    /\ \E n \in Calls("overrun") : trace[n].array = "satellites.info"

\* The PRNs of the documented constellation ranges: GPS 1..32, SBAS 33..64
\* and 120..158, GLONASS 65..96 and 255, QZSS 193..200, BeiDou 201..237
CanonicalPrn ==
    (1..32) \cup (33..64) \cup (120..158) \cup (65..96) \cup {255}
    \cup (193..200) \cup (201..237)

\* The satellite ids of a receiver that the normalization accepts
ReceiverIds == {svid \in 0..255 : UbxPrn(svid) # 0}

\* C11: every PRN in a published satellite list lies in one of the
\* documented constellation ranges, for the lists built from NAV-SVINFO
\* records and for those built from GSV sentences (GSV tuples with an empty,
\* zero or out-of-range PRN field included), and the normalization maps
\* distinct receiver satellite ids to distinct PRNs.
C11_PrnCanonical ==
    /\ \A sat \in Lists :
           \A i \in 1..Len(sat.info) : sat.info[i].prn \in CanonicalPrn
    /\ \A a, b \in ReceiverIds : a # b => UbxPrn(a) # UbxPrn(b)

\* '$'
Dollar == 36

\* The number of '$' bytes after which the framing in the state of d is
\* ready for a sentence: none in the states of a sentence, in a binary frame
\* the rest of the header (whose length bytes the '$' bytes fill in), the
\* rest of the payload and the two checksum bytes
FrameRank(d) ==
    CASE d.state <= GNSS_STATE.NMEA_END_LF -> 0
      [] d.state = GNSS_STATE.UBX_SYNC_2 -> 1
      [] d.state = GNSS_STATE.UBX_MESSAGE_1 -> 4 + (Dollar + 256 * Dollar) + 2
      [] d.state = GNSS_STATE.UBX_MESSAGE_2 -> 3 + (Dollar + 256 * Dollar) + 2
      [] d.state = GNSS_STATE.UBX_LENGTH_1 -> 2 + (Dollar + 256 * Dollar) + 2
      [] d.state = GNSS_STATE.UBX_LENGTH_2 ->
           1 + (d.ubx.length + 256 * Dollar) + 2
      [] d.state = GNSS_STATE.UBX_PAYLOAD -> (d.ubx.length - d.rx_count) + 2
      [] d.state = GNSS_STATE.UBX_CK_A -> 2
      [] d.state = GNSS_STATE.UBX_CK_B -> 1

\* The device after one more '$'
AfterDollar == ReceiveByte(World(0), Dollar).dev

\* C12: the framing can never be wedged.  In every reachable state a '$'
\* opens a sentence (state NMEA-Payload) when the framing is in a state of a
\* sentence or at rest, and otherwise brings the framing one byte closer to
\* rest: inside a binary frame rest is reached after at most the declared
\* length plus the two checksum bytes, and the next '$' opens a sentence.
\* In a mode that does not admit binary frames a byte other than '$'
\* received in Start leaves the state Start.
C12_FramingRecovers ==
    /\ FrameRank(device) = 0 =>
           AfterDollar.state = GNSS_STATE.NMEA_PAYLOAD
    /\ FrameRank(device) > 0 =>
           /\ FrameRank(AfterDollar) = FrameRank(device) - 1
           /\ FrameRank(AfterDollar) = 0 =>
                  AfterDollar.state = GNSS_STATE.START
    /\ FrameRank(device) >= 0
    /\ device.state >= GNSS_STATE.UBX_PAYLOAD =>
           FrameRank(device) <= device.ubx.length + 2
    /\ (device.mode # GNSS_MODE.UBLOX /\ device.state = GNSS_STATE.START) =>
           \A c \in (0..255) \ {Dollar} :
               ReceiveByte(World(0), c).dev.state = GNSS_STATE.START

\* The framing is inside the payload of a binary frame, and a '$' is one more
\* byte of the payload
C12_Witness ==
    /\ device.state = GNSS_STATE.UBX_PAYLOAD
    /\ device.rx_count >= 1
    /\ AfterDollar.state = GNSS_STATE.UBX_PAYLOAD
    /\ AfterDollar.rx_count = device.rx_count + 1

\* What gnss_receive makes of a well-formed GGA sentence whose checksum was
\* corrupted
AfterBadGga == gnss_receive(World(0), NmeaFrameBad(NMEA_BODY.gga_t1))

\* C13: feeding a well-formed GGA sentence whose XOR checksum is corrupted
\* produces no callback, returns the framing state to Start, and leaves the
\* seen mask exactly as it was before the '$' of the sentence, whatever bits
\* were set in seen beforehand.
C13_BadGgaLeavesSeen ==
    (Initialized /\ device.state <= GNSS_STATE.NMEA_END_LF) =>
        /\ \A n \in 1..Len(AfterBadGga.trace) :
               AfterBadGga.trace[n].fn \notin
                   {"location_callback", "satellites_callback"}
        /\ AfterBadGga.dev.state = GNSS_STATE.START
        /\ AfterBadGga.dev.seen = device.seen

\* C14: gnss_initialize resets all state.  Called in any reachable state
\* (mid-frame, mid-cycle, or while a command table is walked with the
\* retransmit timer armed) it leaves the framing state Start, busy clear, no
\* command pending, the seen mask empty, the location record and the
\* satellite table empty, the NMEA field sequence at its start, and no
\* retransmit timer of the previous session that can still fire.
C14_InitializeResets ==
    op.name \in {"gnss_initialize", "reinitialize"} =>
        /\ device.state = GNSS_STATE.START
        /\ device.busy = 0
        /\ device.command = COMMAND_NONE
        /\ device.seen = {}
        /\ device.location = ZeroLocation
        /\ device.satellites = ZeroSatellites
        /\ device.nmea.sequence = SEQ.START
        /\ ~timer

\* The bits of a complete 3D fix
FullMask ==
    {"TIME", "POSITION", "ALTITUDE", "SPEED", "COURSE", "HDOP", "PDOP",
     "VDOP"}

\* What gnss_receive makes of the RMC sentence of 12:00:00
AfterRmc == gnss_receive(World(0), NmeaFrame(NMEA_BODY.rmc_t1))

\* The GGA, the GSA (3D) and the complete GSV group of 12:00:00 have been
\* received in NMEA mode and the framing is at rest
CycleBeforeRmc ==
    /\ device.mode = GNSS_MODE.NMEA
    /\ device.init = GNSS_INIT.DONE
    /\ device.state = GNSS_STATE.START
    /\ {"GPGGA", "GPGSA", "GPGSV"} \subseteq device.seen
    /\ device.nmea.navigation = NMEA_NAVIGATION.D3
    /\ device.location.time.hour = 12
    /\ device.location.time.minute = 0
    /\ device.location.time.second = 0

C16_NumsvCountsUsed ==
    device.mode = GNSS_MODE.NMEA =>
        \A loc \in Published :
            loc.type \in {GNSS_LOCATION_TYPE.D2, GNSS_LOCATION_TYPE.D3} =>
                loc.numsv = Cardinality(device.nmea.sv_used_mask)

\* $GPRMC,123519,A,4807.038,N,01131.000,E,022.4,084.4,230394,003.1,W*6A
\* with its CR LF
DocRmc == NmeaFrame(NMEA_BODY.rmc_doc)

\* What gnss_receive makes of that sentence, and of it without its LF
AfterDocRmc == gnss_receive(World(0), DocRmc)
BeforeLf == gnss_receive(World(0), SubSeq(DocRmc, 1, Len(DocRmc) - 1))

\* The core is idle: NMEA mode, the framing at rest, neither GGA nor GSA
\* seen
IdleCore ==
    /\ Initialized
    /\ device.mode = GNSS_MODE.NMEA
    /\ device.state = GNSS_STATE.START
    /\ device.seen \cap {"GPGGA", "GPGSA", "GPRMC"} = {}

\* C17: feeding the sentence
\* $GPRMC,123519,A,4807.038,N,01131.000,E,022.4,084.4,230394,003.1,W*6A
\* followed by CR LF to an idle core sets the RMC bit in seen when the LF is
\* consumed, and fires no callback because GGA and GSA have not been seen.
C17_RmcAloneSetsSeen ==
    IdleCore =>
        /\ "GPRMC" \notin BeforeLf.dev.seen
        /\ "GPRMC" \in AfterDocRmc.dev.seen
        /\ \A n \in 1..Len(AfterDocRmc.trace) :
               AfterDocRmc.trace[n].fn \notin
                   {"location_callback", "satellites_callback"}

\* C18: an RMC sentence populates the latitude and the longitude of the
\* working fix with the hemisphere sign applied; after the sentence
\* $GPRMC,123519,A,4807.038,N,01131.000,E,... the working record holds
\* latitude 480705633 and longitude 11516667.
C18_RmcSetsPosition ==
    IdleCore =>
        /\ AfterDocRmc.dev.location.latitude = 480705633
        /\ AfterDocRmc.dev.location.longitude = 11516667

\* What gnss_receive makes of NAV-DOP, NAV-PVT and NAV-TIMEGPS frames of the
\* iTOW 1000, received in this order
AfterDopPvtTime ==
    gnss_receive(gnss_receive(gnss_receive(World(0), NavDop(1000)),
                              NavPvt(1000)),
                 NavTimeGps(1000))

\* The locations that a trace publishes
PublishedIn(events) ==
    {events[n].location : n \in {m \in 1..Len(events) :
                                   events[m].fn = "location_callback"}}

\* The number of location callbacks in a trace
PublishCount(events) ==
    Cardinality({n \in 1..Len(events) : events[n].fn = "location_callback"})

\* u-blox mode, init Done, the framing at rest
UbxReady ==
    /\ device.mode = GNSS_MODE.UBLOX
    /\ device.init = GNSS_INIT.DONE
    /\ device.table = NULL_TABLE
    /\ device.state = GNSS_STATE.START

\* C19: in u-blox mode with init Done, a valid NAV-DOP frame followed by
\* valid NAV-PVT and NAV-TIMEGPS frames of the same iTOW causes exactly one
\* location callback; it carries the pdop, hdop and vdop of the NAV-DOP frame
\* (150, 90, 120, not the 9999 sentinel) and the latitude and longitude of
\* the NAV-PVT frame.
C19_DopPvtTimePublishOnce ==
    UbxReady =>
        LET events == AfterDopPvtTime.trace
        IN  /\ PublishCount(events) = 1
            /\ \A loc \in PublishedIn(events) :
                   /\ loc.pdop = 150
                   /\ loc.hdop = 90
                   /\ loc.vdop = 120
                   /\ loc.latitude = 481173000
                   /\ loc.longitude = 115166667

\* NAV-TIMEGPS has ended the cycle that NAV-DOP and NAV-PVT began: the fix
\* is published with the DOPs and the position of the frames
C19_Witness ==
    /\ device.mode = GNSS_MODE.UBLOX
    /\ Calls("ubx_end_message") # {}
    /\ "NAV_TIMEGPS" \notin device.seen
    /\ device.ubx.itow = 1000
    /\ \E loc \in Published :
           /\ loc.pdop = 150 /\ loc.hdop = 90 /\ loc.vdop = 120
           /\ loc.latitude = 481173000 /\ loc.longitude = 115166667

\* The first command of the init table gnss_initialize has selected
FirstCommand(d) == TableAt(d, [tbl |-> d.table.tbl, idx |-> 0], 0)

\* gnss_initialize has selected u-blox mode and no binary frame has come
AwaitingFrame ==
    /\ device.mode = GNSS_MODE.UBLOX
    /\ device.init = GNSS_INIT.UBX_BAUD_RATE
    /\ device.state = GNSS_STATE.START

\* Valid binary frames of several classes and ids: NAV-DOP, NAV-TIMEGPS,
\* MON-HW (0x0A09), and the ACK-ACK and ACK-NACK of the first command
FirstFrames ==
    {NavDop(1000), NavTimeGps(1000), UbxFrame(2569, <<1, 2>>)}
    \cup (IF FirstCommand(device) \in DOMAIN UBX_DATA
          THEN LET data == UBX_DATA[FirstCommand(device)]
                   command == At(data, 2) * 256 + At(data, 3)
               IN  {AckAck(command), AckNack(command)}
          ELSE {})

\* C20: after gnss_initialize in u-blox mode, with the init phase still
\* UBX-baud-rate, the first valid binary frame, whatever its class and id,
\* advances init from UBX-baud-rate to UBX-init-table and hands the first
\* command of the init table to the send routine; gnss_done() is false
\* afterwards.
C20_FirstFrameStartsTable ==
    AwaitingFrame =>
        \A frame \in FirstFrames :
            LET w == gnss_receive(World(0), frame)
            IN  /\ w.dev.init = GNSS_INIT.UBX_INIT_TABLE
                /\ Sent(w.trace) # << >>
                /\ Head(Sent(w.trace)).data = FirstCommand(device)
                /\ ~gnss_done(w.dev)

\* The first frame has come: the init table is being walked and its first
\* command is with the send routine
C20_Witness ==
    /\ device.mode = GNSS_MODE.UBLOX
    /\ device.init = GNSS_INIT.UBX_INIT_TABLE
    /\ op.name = "gnss_receive"
    /\ device.table.idx = 1
    /\ device.busy = 1
    /\ \E n \in 1..Len(trace) :
           /\ trace[n].fn = "send"
           /\ trace[n].data = TableAt(device, device.table, -1)

\* A command of a u-blox table awaits its answer and the table holds another
\* command after it; the framing is at rest
UbxPending ==
    /\ device.mode = GNSS_MODE.UBLOX
    /\ device.table # NULL_TABLE
    /\ device.init # GNSS_INIT.UBX_BAUD_RATE
    /\ device.command \in 0..65535
    /\ device.state = GNSS_STATE.START
    /\ TableAt(device, device.table, 0) \notin {"NULL", "OOB"}

\* The driver after an answer: the table, the pending command, the init
\* phase, the busy flag, the timer and the commands sent
DriverAfter(w) ==
    [table |-> w.dev.table, command |-> w.dev.command, init |-> w.dev.init,
     busy |-> w.dev.busy, timer |-> w.timer, sent |-> Sent(w.trace)]

\* C21: while a command of a u-blox table is pending and another follows it,
\* a valid ACK-ACK naming the pending command advances the table pointer by
\* exactly one entry, hands that next entry (and nothing else) to the send
\* routine, makes it the pending command and leaves the retransmit timer
\* armed; a matching ACK-NACK has exactly the same effect.
C21_AckAdvancesTable ==
    UbxPending =>
        LET ack == gnss_receive(World(0), AckAck(device.command))
            nack == gnss_receive(World(0), AckNack(device.command))
            next == TableAt(device, device.table, 0)
        IN  /\ ack.dev.table = [device.table EXCEPT !.idx = @ + 1]
            /\ Len(Sent(ack.trace)) = 1
            /\ Sent(ack.trace)[1].data = next
            /\ ack.dev.command = CommandOf(ack.dev, next)
            /\ ack.dev.init = device.init
            /\ ack.timer
            /\ DriverAfter(nack) = DriverAfter(ack)

\* An acknowledgement has moved the table past its second command, which
\* now awaits its answer with the timer armed
C21_Witness ==
    /\ device.mode = GNSS_MODE.UBLOX
    /\ op.name = "gnss_receive"
    /\ device.table # NULL_TABLE
    /\ device.table.idx = 2
    /\ timer
    /\ device.command = CommandOf(device, TableAt(device, device.table, -1))
    /\ \E n \in 1..Len(trace) :
           /\ trace[n].fn = "send"
           /\ trace[n].data = TableAt(device, device.table, -1)

\* A command of a u-blox table awaits its acknowledgement with the
\* retransmit timer armed
AwaitingAck ==
    /\ device.mode = GNSS_MODE.UBLOX
    /\ device.table # NULL_TABLE
    /\ device.table.idx >= 1
    /\ timer
    /\ TableAt(device, device.table, -1) \notin {"NULL", "OOB"}
    /\ device.command = CommandOf(device, TableAt(device, device.table, -1))

\* The timer has expired in the world w: the callback ubx_timeout runs
Expire(w) == ubx_timeout(TimerStop([w EXCEPT !.trace = << >>]))

\* C22: when the retransmit timer expires while a command of a u-blox table
\* awaits its acknowledgement, the entry preceding the table pointer is
\* handed to the send routine again with its bytes unchanged, the table
\* pointer, the init phase and the pending command are unchanged and the
\* timer is armed again; a second expiry resends the same command.
C22_TimeoutResends ==
    AwaitingAck =>
        LET last == TableAt(device, device.table, -1)
            once == Expire(World(0))
            twice == Expire(once)
        IN  /\ Len(Sent(once.trace)) = 1
            /\ Sent(once.trace)[1].data = last
            /\ Data(once.dev, last) = Data(device, last)
            /\ once.dev.table = device.table
            /\ once.dev.init = device.init
            /\ once.dev.command = device.command
            /\ once.timer
            /\ Sent(twice.trace) = Sent(once.trace)
            /\ Data(twice.dev, last) = Data(device, last)
            /\ twice.dev.table = device.table
            /\ twice.dev.init = device.init
            /\ twice.timer

\* The timer has expired with a command pending: the command before the
\* table pointer is with the send routine again and the timer is armed
C22_Witness ==
    /\ device.mode = GNSS_MODE.UBLOX
    /\ op.name = "ubx_timeout"
    /\ device.table # NULL_TABLE
    /\ device.table.idx >= 1
    /\ timer
    /\ Len(Sent(trace)) >= 1
    /\ Sent(trace)[Len(Sent(trace))].data
           = TableAt(device, device.table, -1)

\* The location callbacks of the last operation
LocationCalls ==
    {trace[n] : n \in {m \in 1..Len(trace) :
                          trace[m].fn = "location_callback"}}

\* C23: a location published with fix type None or Time-only carries the
\* accumulated mask restricted to TIME and CORRECTION: every other bit is
\* cleared, and TIME and CORRECTION are retained if they were set.
C23_NoFixKeepsTime ==
    \A e \in LocationCalls :
        e.location.type \in {GNSS_LOCATION_TYPE.NONE, GNSS_LOCATION_TYPE.TIME}
            => e.location.mask = e.accumulated \cap {"TIME", "CORRECTION"}

\* C24: a location published with fix type 2D carries the accumulated mask
\* without ALTITUDE, EVPE and VDOP, every other accumulated bit retained;
\* one published with fix type 3D carries every accumulated bit.
C24_FixTypeMask ==
    \A e \in LocationCalls :
        /\ e.location.type = GNSS_LOCATION_TYPE.D2
               => e.location.mask
                      = e.accumulated \ {"ALTITUDE", "EVPE", "VDOP"}
        /\ e.location.type = GNSS_LOCATION_TYPE.D3
               => e.location.mask = e.accumulated

\* The last command of the init table of the mode awaits its answer: the
\* table pointer is at the null terminator and the framing is at rest
AtTableEnd ==
    /\ \/ /\ device.mode = GNSS_MODE.MEDIATEK
          /\ device.init = GNSS_INIT.MTK_INIT_TABLE
       \/ /\ device.mode = GNSS_MODE.UBLOX
          /\ device.init = GNSS_INIT.UBX_INIT_TABLE
    /\ device.table # NULL_TABLE
    /\ TableAt(device, device.table, 0) = "NULL"
    /\ device.command \in 0..65535
    /\ device.state = GNSS_STATE.START

\* The steady-state expected mask of the mode
SteadyExpected(mode) ==
    IF mode = GNSS_MODE.UBLOX
    THEN {"NAV_DOP", "NAV_PVT", "NAV_SVINFO", "NAV_TIMEGPS"}
    ELSE {"GPGGA", "GPGSA", "GPGSV", "GPRMC"}

\* C25: when the acknowledgement of the last entry of an init table
\* arrives (the table pointer at the null terminator), the driver sets the
\* init phase to Done and the table pointer to null, resets seen to 0,
\* clears the location type and mask and installs the steady-state expected
\* mask of the mode (GGA|GSA|GSV|RMC for MediaTek, NAV-DOP|NAV-PVT|
\* NAV-SVINFO|NAV-TIMEGPS for u-blox); no further command is sent.
C25_TableEndCompletesInit ==
    AtTableEnd =>
        \A answer \in Answers(device) :
            LET w == gnss_receive(World(0), answer)
            IN  /\ w.dev.init = GNSS_INIT.DONE
                /\ w.dev.table = NULL_TABLE
                /\ w.dev.seen = {}
                /\ w.dev.location.type = 0
                /\ w.dev.location.mask = {}
                /\ w.dev.expected = SteadyExpected(device.mode)
                /\ Sent(w.trace) = << >>

\* The answer to the last command of the init table has completed the
\* initialization
C25_Witness ==
    /\ device.mode \in {GNSS_MODE.MEDIATEK, GNSS_MODE.UBLOX}
    /\ op.name = "gnss_receive"
    /\ device.init = GNSS_INIT.DONE
    /\ device.table = NULL_TABLE
    /\ device.command = COMMAND_NONE
    /\ device.expected = SteadyExpected(device.mode)
    /\ Sent(trace) = << >>

\* NMEA mode, the framing at rest
NmeaReady ==
    /\ Initialized
    /\ device.mode = GNSS_MODE.NMEA
    /\ device.init = GNSS_INIT.DONE
    /\ device.state = GNSS_STATE.START

\* What gnss_receive makes of a valid GGA sentence whose latitude field,
\* 9907.038, is out of range; its time field is 120000.000
AfterBadLatitude ==
    gnss_receive(World(0), NmeaFrame(NMEA_BODY.gga_badlat))

\* C26: when a field of a recognized sentence fails to parse or is out of
\* range, the fields parsed before it are retained and the bit of the
\* sentence is still set in seen when the sentence ends with a valid
\* checksum and CR LF (unless that end has published the fix and cleared it).
C26_FailedFieldKeepsSentence ==
    NmeaReady =>
        LET w == AfterBadLatitude
        IN  /\ w.dev.location.time.hour = 12
            /\ w.dev.location.latitude = device.location.latitude
            /\ \/ "GPGGA" \in w.dev.seen
               \/ PublishCount(w.trace) > 0

\* A GGA, GST or RMC sentence of the running cycle has recorded the time
\* 12:00:00.000
TimeRecorded ==
    /\ NmeaReady
    /\ device.seen \cap {"GPGGA", "GPGST", "GPRMC"} # {}
    /\ device.location.time.hour = 12
    /\ device.location.time.minute = 0
    /\ device.location.time.second = 0
    /\ device.location.time.millis = 0

\* What gnss_receive makes of the start of a GGA sentence up to the end of
\* its time field: $GPGGA,120001.000,
AfterLaterTime ==
    gnss_receive(World(0), SubSeq(NmeaFrame(NMEA_BODY.gga_t2_empty), 1, 18))

\* C27: once a GGA, GST or RMC sentence has recorded a time in the current
\* cycle, a later GGA sentence of that cycle whose time field differs resets
\* the seen mask to empty and clears the working fix type and mask before
\* its own fields are applied.
C27_LaterTimeResetsCycle ==
    TimeRecorded =>
        /\ AfterLaterTime.dev.location.time.second = 1
        /\ AfterLaterTime.dev.seen = {}
        /\ AfterLaterTime.dev.location.type = 0
        /\ AfterLaterTime.dev.location.mask = {}

\* NMEA mode with GGA seen, no GSV group running and room in the table for
\* the satellites of two sentences
GsvGroupDue ==
    /\ NmeaReady
    /\ "GPGGA" \in device.seen
    /\ "GPGSV" \notin device.seen
    /\ device.nmea.sv_in_view_sentences = 0
    /\ device.satellites.count + 8 <= GNSS_SATELLITES_COUNT_MAX

\* What gnss_receive makes of the first sentence of a group of two that
\* announces 8 satellites, followed by the sentence second
AfterGroup(second) ==
    gnss_receive(gnss_receive(World(0), NmeaFrame(NMEA_BODY.gsv_1of2)),
                 NmeaFrame(second))

\* The group has not completed: GSV is not set in seen and no satellites
\* were published
GroupAborted(w) ==
    /\ "GPGSV" \notin w.dev.seen
    /\ \A n \in 1..Len(w.trace) : w.trace[n].fn # "satellites_callback"

\* C28: a sentence of a GSV group whose total-sentences field or whose
\* total-SVs-in-view field differs from that of the first sentence of the
\* group, or whose current-sentence index is not (stored SVs / 4) + 1,
\* aborts the group: the group does not set the GSV bit in seen.
C28_GsvGroupConsistent ==
    GsvGroupDue =>
        /\ GroupAborted(AfterGroup(NMEA_BODY.gsv_2of3))
        /\ GroupAborted(AfterGroup(NMEA_BODY.gsv_1of2))
        /\ GroupAborted(AfterGroup(NMEA_BODY.gsv_2of2_five))

\* What gnss_receive makes of a valid NAV-PVT frame whose payload is n bytes
AfterLong(n) == gnss_receive(World(0), NavPvtLong(1000, n))

\* ubx_end_message has run in the trace events
Delivered(events) ==
    \E n \in 1..Len(events) : events[n].fn = "ubx_end_message"

\* The staging area holds the first 96 bytes of the payload of n bytes and
\* nothing was stored past it
StagedFirst(w, n) ==
    /\ w.dev.rx_data
           = SubSeq(NavPvtPayload(1000)
                    \o Zeros(n - Len(NavPvtPayload(1000))),
                    1, GNSS_RX_DATA_SIZE)
    /\ w.dev.tx_data = device.tx_data
    /\ \A k \in 1..Len(w.trace) : w.trace[k].fn # "overrun"

Driver(w) ==
    [table |-> w.dev.table, command |-> w.dev.command, init |-> w.dev.init,
     busy |-> w.dev.busy, timer |-> w.timer]

\* Acknowledgements that do not name the pending command: another id, and an
\* id that differs from it by 65536
OtherAnswers(d) ==
    LET other == IF d.command \in 0..65535 THEN (d.command + 1) % 65536
                 ELSE 314
        far == IF d.command \in 0..65535 THEN d.command + 65536
               ELSE 65536 + 314
    IN  IF d.mode = GNSS_MODE.UBLOX
        THEN {AckAck(other), AckNack(other)}
        ELSE {NmeaFrame(Pmtk001(other, 3)), NmeaFrame(Pmtk001(other, 2)),
              NmeaFrame(Pmtk001(far, 3))}

\* The driver is past the baud rate phase and the framing is at rest
PastBaudRate ==
    /\ Initialized
    /\ device.mode \in {GNSS_MODE.MEDIATEK, GNSS_MODE.UBLOX}
    /\ device.init \notin {GNSS_INIT.MTK_BAUD_RATE, GNSS_INIT.UBX_BAUD_RATE}
    /\ device.state = GNSS_STATE.START

\* C30: an acknowledgement (PMTK001, ACK-ACK or ACK-NACK) that names an id
\* other than the pending command id, or that arrives while no command is
\* pending, leaves the table pointer, the pending id, the init phase, the
\* busy flag and the retransmit timer unchanged and transmits nothing.
C30_OnlyMatchingAckAdvances ==
    PastBaudRate =>
        \A answer \in OtherAnswers(device) :
            LET w == gnss_receive(World(0), answer)
            IN  /\ Driver(w) = Driver(World(0))
                /\ Sent(w.trace) = << >>


-----------------------------------------------------------------------------
(* One outstanding command.                                                *)

\* A command id awaits its acknowledgement
CommandPending(d) == d.command \in 0..65535

\* C32: under every interleaving of received frames, timer expiries,
\* send-complete callbacks and control calls, no command is handed to the
\* send routine while the busy flag of a previous transmission is still
\* set, and a pending command id that still awaits its acknowledgement is
\* never replaced by a different one.
C32_OneOutstanding ==
    [][Initialized =>
         /\ Sent(trace') # << >> => device.busy = 0
         /\ CommandPending(device) /\ CommandPending(device')
               => device'.command = device.command]_vars


\* A command sent out of a u-blox table awaits its acknowledgement
TableCommandPending ==
    /\ device.mode = GNSS_MODE.UBLOX
    /\ device.table # NULL_TABLE
    /\ device.init # GNSS_INIT.UBX_BAUD_RATE
    /\ CommandPending(device)

\* C33: every binary command sent as part of a command table, in the walk
\* of the init table and in every table a runtime control installs, has the
\* retransmit timer armed while it awaits its acknowledgement, so that a
\* lost acknowledgement cannot keep an accepted reconfiguration from
\* running to completion.
C33_TableCommandTimed == TableCommandPending => timer


-----------------------------------------------------------------------------
(* The staging buffer while a sentence is framed.                          *)

\* '$', a field of n letters A and the byte that closes it
LongField(n, closer) == <<36>> \o [i \in 1..n |-> 65] \o <<closer>>

\* The bytes that close a field: ',' and '*'
Closers == {44, 42}

\* The stores past the end of rx_data among the events
Overruns(events) ==
    SelectSeq(events, LAMBDA e : e.fn = "overrun" /\ e.array = "rx_data")

\* C34: every write into the 96-byte staging buffer made while an NMEA
\* sentence is framed, the 0x00 written when ',' or '*' closes a field
\* included, is at an index in 0..95: a field that has filled all 96 bytes is
\* rejected, the state back to Start, before a byte or a terminator is
\* stored past the end of the buffer.
C34_NmeaStoreInBounds ==
    NmeaReady =>
        \A closer \in Closers :
            LET w == gnss_receive(World(0),
                                  LongField(GNSS_RX_DATA_SIZE, closer))
            IN  /\ Overruns(w.trace) = << >>
                /\ w.dev.tx_data = device.tx_data
                /\ w.dev.state = GNSS_STATE.START


-----------------------------------------------------------------------------
(* The satellite table.                                                    *)

\* C35: every read or write of an entry of the satellite table uses an
\* index below 32, in every reachable state: when the GSV sentences of a
\* cycle report more than 32 satellites, the loop that marks the satellites
\* used in the fix as Navigating before the satellites callback touches no
\* entry at index 32 or above.
C35_SatelliteIndexBelow32 ==
    \A n \in Calls("overrun") :
        trace[n].array = "satellites.info"
            => trace[n].index < GNSS_SATELLITES_COUNT_MAX


-----------------------------------------------------------------------------
(* The sentence type at the end of a sentence.                             *)

\* What gnss_receive makes of a valid GSA and of a valid GSV sentence that
\* carry one field more than the parser expects
AfterGsaExtra == gnss_receive(World(0), NmeaFrame(NMEA_BODY.gsa_extra))
AfterGsvExtra == gnss_receive(World(0), NmeaFrame(NMEA_BODY.gsv_extra))

\* C36: a valid sentence is finalized as a sentence of the type its address
\* field names and no other: a GSA or a GSV sentence with one extra trailing
\* field is not finalized as a GST or as an RMC sentence, so it adds neither
\* GST to expected or seen nor RMC to seen, and publishes no location.
C36_FinalizedAsAddressed ==
    NmeaReady =>
        LET a == AfterGsaExtra
            v == AfterGsvExtra
        IN  /\ "GPGST" \in a.dev.expected => "GPGST" \in device.expected
            /\ "GPGST" \in a.dev.seen => "GPGST" \in device.seen
            /\ "GPRMC" \in v.dev.seen => "GPRMC" \in device.seen
            /\ PublishCount(v.trace) = 0


-----------------------------------------------------------------------------
(* The frame that ends the baud rate phase.                                *)

\* The command id mtk_send records for the bytes of a command
MtkCommandOf(d, name) ==
    ((At(Data(d, name), 5) - 48) * 10 + (At(Data(d, name), 6) - 48)) * 10
    + (At(Data(d, name), 7) - 48)

\* The driver awaits the first sentence or frame of the receiver
InBaudRatePhase ==
    /\ device.init \in {GNSS_INIT.MTK_BAUD_RATE, GNSS_INIT.UBX_BAUD_RATE}
    /\ device.table # NULL_TABLE
    /\ device.state = GNSS_STATE.START

\* Frames that end the baud rate phase: a sentence or frame that is no
\* answer, and the acknowledgement that names the first command of the table
EndingFrames(d) ==
    IF d.mode = GNSS_MODE.UBLOX
    THEN {NavDop(1000), VtgFrame,
          AckAck(CommandOf(d, TableAt(d, d.table, 0))),
          AckNack(CommandOf(d, TableAt(d, d.table, 0)))}
    ELSE {VtgFrame,
          NmeaFrame(Pmtk001(MtkCommandOf(d, TableAt(d, d.table, 0)), 3))}

\* C37: processing one received frame hands at most one command to the send
\* routine and advances the table pointer by at most one entry: the frame
\* that ends the baud rate phase, an ACK-ACK or a PMTK001 naming the id of
\* the first table command included, sends the first table entry only and
\* does not acknowledge it as well.
C37_OneStepPerFrame ==
    InBaudRatePhase =>
        \A frame \in EndingFrames(device) :
            LET w == gnss_receive(World(0), frame)
            IN  /\ Len(Sent(w.trace)) = 1
                /\ Sent(w.trace)[1].data = TableAt(device, device.table, 0)
                /\ w.dev.table = [device.table EXCEPT !.idx = @ + 1]


-----------------------------------------------------------------------------
(* PMTK001 sentences in u-blox mode.                                       *)

\* u-blox mode past the baud rate phase, the framing at rest
UbxPastBaudRate ==
    /\ Initialized
    /\ device.mode = GNSS_MODE.UBLOX
    /\ device.init # GNSS_INIT.UBX_BAUD_RATE
    /\ device.state = GNSS_STATE.START

\* The command numbers of the PMTK001 sentences: the pending command id and
\* the number of a MediaTek command
PmtkNumbers(d) ==
    (IF CommandPending(d) THEN {d.command} ELSE {}) \cup {314}

\* C38: in u-blox mode a PMTK001 sentence, whatever command number it
\* carries, the pending binary command id included, does not clear the
\* pending command id, does not advance the table pointer, transmits
\* nothing, and does not leave the driver with a null table pointer while
\* the init phase is still UBX-init-table.
C38_PmtkIgnoredInUblox ==
    UbxPastBaudRate =>
        \A number \in PmtkNumbers(device), status \in {2, 3} :
            LET w == gnss_receive(World(0),
                                  NmeaFrame(Pmtk001(number, status)))
            IN  /\ Driver(w) = Driver(World(0))
                /\ Sent(w.trace) = << >>
                /\ ~ /\ w.dev.table = NULL_TABLE
                     /\ w.dev.init = GNSS_INIT.UBX_INIT_TABLE


-----------------------------------------------------------------------------
(* NMEA sentences in u-blox mode.                                          *)

\* Valid sentences on the stream of a configured u-blox receiver: one the
\* device does not decode and a GGA sentence
StraySentences == {VtgFrame, NmeaFrame(NMEA_BODY.gga_t1)}

\* The calls of the location and of the satellites callback among the events
CallbacksIn(events) ==
    SelectSeq(events, LAMBDA e : e.fn \in {"location_callback",
                                           "satellites_callback"})

\* C40: in u-blox mode with the init phase Done a valid NMEA sentence on the
\* stream, of whatever type, triggers no location callback and no
\* satellites callback and leaves the type and the mask of the binary
\* working fix unchanged.
C40_NmeaSilentInUblox ==
    UbxReady =>
        \A sentence \in StraySentences :
            LET w == gnss_receive(World(0), sentence)
            IN  /\ CallbacksIn(w.trace) = << >>
                /\ w.dev.location.type = device.location.type
                /\ w.dev.location.mask = device.location.mask


-----------------------------------------------------------------------------
(* The walk of the init table with a lossy line.                           *)

\* The init phase is Done and gnss_done() returns true
InitComplete == device.init = GNSS_INIT.DONE /\ gnss_done(device)

\* C31: in u-blox mode, if the receiver eventually sends a valid frame and
\* eventually acknowledges (ACK or NACK) a transmission of each pending
\* command, whatever finite number of transmissions and acknowledgements is
\* lost, and the retransmit timer fires, the walk of the init table ends:
\* the init phase becomes Done and gnss_done() returns true.
C31_InitTableWalkTerminates == Initialized ~> InitComplete

\* The walk has ended with a command that was sent more than once: a second
\* answer to it is still on the line
C31_Witness ==
    /\ InitComplete
    /\ device.mode = GNSS_MODE.UBLOX
    /\ link.answers # << >>


\* C39: the table pointer moves past the pending entry of the init table
\* only on an answer the receiver produced for a transmission of that
\* entry: a second or late answer to an earlier entry never acknowledges a
\* later entry with the same class and id.
PendingEntry == device.table.idx - 1

C39_AckOfPendingEntryOnly ==
    [][(/\ device.init = GNSS_INIT.UBX_INIT_TABLE
        /\ device.table # NULL_TABLE
        /\ device'.table # device.table)
       => /\ link.answers # << >>
          /\ Head(link.answers).entry = PendingEntry]_vars

=============================================================================
